---- MODULE Spec2Model ----
(***************************************************************************)
(* CivicFix: the admin console (optimistic status update, refetch, change  *)
(* feed), the sign-up form, the report modal with its location lookup and  *)
(* the track view, the dashboard, the community votes and the reward       *)
(* levels, as state machines over one remote store.                        *)
(***************************************************************************)
EXTENDS Integers, Sequences, FiniteSets, Bags, TLC

VARIABLES
    \* ---- the remote service
    session,      \* the signed-in user, or NoUser
    remote,       \* the issues collection, in order of creation
    rver,         \* number of mutations the issues collection has applied
    events,       \* change events not yet delivered to the view's channel
    nOps,         \* user operations and other clients' mutations so far
    \* ---- the mounted view
    route,        \* the path the router was last pushed to
    mounted,      \* the view is mounted
    channel,      \* the view's change subscription exists
    alerts,       \* the messages the view has shown with alert()
    anonQueries,  \* collections queried after identity resolution returned no user
    \* ---- AdminPage
    version,      \* which AdminPage: "feed" (part_000) or "table" (part_001)
    pc,           \* position of checkAdmin: "getUser", "profile", "done"
    who,          \* the user checkAdmin resolved ("?" before it did)
    issues, stats, loading, newIssueId, isAdmin,
    fetches,      \* issues queries in flight (a bag)
    updates,      \* status update requests in flight (a bag)
    shown,        \* the answered query the list and stats were last set from
    \* ---- SignUpPage
    suVersion,    \* "polling", "alert" (signup/page.js) or "plain" (part_005)
    formData,     \* mobile: the characters typed; password: its length
    role, suLoading, suError, verificationPending,
    suPc,         \* position of handleSignUp: "form", "signUp", "upsert", "done"
    suCalls,      \* the network calls handleSignUp has issued, in order
    suTimer,      \* the 3 s interval of the auto-redirect effect is set
    suChecks,     \* the getSession calls of the interval in flight: the role each captured
    suPolled,     \* the number of session checks the interval has started
    \* ---- RewardsPage and ProfilePage
    points,       \* profiles.points of the user
    rewardsView,  \* what RewardsPage renders from points
    profileView,  \* what ProfilePage renders from profile.points
    \* ---- ReportIssueModal
    file,         \* a photo is selected
    isEmergency, uploading, rmError, isSuccess,
    rmPc,         \* position of handleSubmit: "form", "getUser", "upload", "insert",
                  \* "success" (the 2 s timer runs), "closed"
    rmUser,       \* the user handleSubmit resolved
    imageUrl,     \* handleSubmit's imageUrl
    submitted,    \* the reports whose insert succeeded: id, by, whether with a photo
    rmCalls,      \* the callbacks the modal has invoked, in order
    \* ---- TrackIssuesPage
    tkIssues, tkLoading,
    tkPc,         \* position of fetchMyIssues: "none", "getUser", "query", "done"
    tkUser,       \* the user fetchMyIssues resolved
    tkSince,      \* the reports submitted before fetchMyIssues was invoked
    \* ---- DashboardPage
    username, dbStats, myIssues, isLoading,
    dbFetches,    \* the invocations of fetchRealData under way (a bag)
    dbDone,       \* the invocation that last set the stats and the list
    \* ---- CommunityPage
    cmIssues, cmLoading,
    votedIssues,  \* per issue: "" (no vote), "verify" or "dispute"
    votes,        \* the invocations of handleVote under way (a bag)
    inserts,      \* per issue: the verification inserts issued so far
    verifications, \* the verifications collection
    \* ---- ReportIssueModal, handleGetLocation
    location,     \* the text of the location field
    coords,       \* { lat, lng }
    locationLoading,
    glPc,         \* position of handleGetLocation: "idle", "position", "lookup",
                  \* "failed" (the position request ended without a position)
    geoSupported, \* navigator.geolocation exists
    \* ---- auth callback route
    cbReq,        \* the request GET is handling: its code and next parameters
    cbPc,         \* position of GET: "idle", "exchange", "done"
    cbExchanges,  \* the outcomes of the code-for-session exchanges GET attempted
    cbOut,        \* the responses GET has returned for the request
    cbLog,        \* the requests handled before, each with its response
    \* ---- ProfilePage
    pfRemote,     \* the user's row of profiles
    pfProfile,    \* profile
    pfFormData,   \* formData
    pfEditing, pfLoading, pfUploading,
    pfPc,         \* position of fetchProfile: "getUser", "query", "done", "crashed"
    pfUpdate,     \* the handleUpdate in flight: the formData it captured
    pfUpload,     \* the handleAvatarUpload in flight: its position, the profile it
                  \* captured and the public URL of its file
    pfAllOk,      \* no handleUpdate or handleAvatarUpload has failed so far
    \* ---- LoginPage
    lgView,       \* view: "login" or "forgot"
    lgLoading, lgMessage, lgErrorMsg,
    lgPc,         \* position of the handler in flight: "form", "signIn", "profile",
                  \* "reset", "done" (handleLogin has navigated)
    lgUser,       \* data.user of the sign-in
    lgQueries,    \* the profile queries handleLogin has issued
    lgPushes      \* the routes handleLogin has pushed, in order

envVars   == <<session, remote, rver, events, nOps>>
navVars   == <<route, mounted, channel, alerts, anonQueries>>
adminVars == <<version, pc, who, issues, stats, loading, newIssueId, isAdmin,
               fetches, updates, shown>>
pollVars  == <<suTimer, suChecks, suPolled>>
suVars    == <<suVersion, formData, role, suLoading, suError, verificationPending,
               suPc, suCalls, pollVars>>
lvVars    == <<points, rewardsView, profileView>>
rmVars    == <<file, isEmergency, uploading, rmError, isSuccess, rmPc, rmUser, imageUrl,
               submitted, rmCalls>>
tkVars    == <<tkIssues, tkLoading, tkPc, tkUser, tkSince>>
dbVars    == <<username, dbStats, myIssues, isLoading, dbFetches, dbDone>>
cmVars    == <<cmIssues, cmLoading, votedIssues, votes, inserts, verifications>>
glVars    == <<location, coords, locationLoading, glPc, geoSupported>>
cbVars    == <<cbReq, cbPc, cbExchanges, cbOut, cbLog>>
pfVars    == <<pfRemote, pfProfile, pfFormData, pfEditing, pfLoading, pfUploading, pfPc,
               pfUpdate, pfUpload, pfAllOk>>
lgVars    == <<lgView, lgLoading, lgMessage, lgErrorMsg, lgPc, lgUser, lgQueries,
               lgPushes>>
otherVars == <<cmVars, glVars, cbVars, pfVars, lgVars>>
vars      == <<envVars, navVars, adminVars, suVars, lvVars, rmVars, tkVars, dbVars,
               otherVars>>

\* what the actions of one view leave alone
notAdmin  == <<suVars, lvVars, rmVars, tkVars, dbVars, otherVars>>
notSignUp == <<envVars, adminVars, lvVars, rmVars, tkVars, dbVars, otherVars>>
notLevels == <<envVars, navVars, adminVars, suVars, rmVars, tkVars, dbVars, otherVars>>
notReport == <<adminVars, suVars, lvVars, dbVars, otherVars>>
notDashboard == <<adminVars, suVars, lvVars, rmVars, tkVars, otherVars>>
notCommunity == <<adminVars, suVars, lvVars, rmVars, tkVars, dbVars, glVars, cbVars, pfVars,
                  lgVars>>
notCallback == <<remote, rver, events, nOps, navVars, adminVars, suVars, lvVars, rmVars,
                 tkVars, dbVars, cmVars, glVars, pfVars, lgVars>>
notLocate == <<session, remote, rver, events, navVars, adminVars, suVars, lvVars, tkVars,
               dbVars, cmVars, cbVars, file, isEmergency, uploading, isSuccess, rmPc,
               rmUser, imageUrl, submitted, rmCalls, pfVars, lgVars>>
notProfile == <<remote, rver, events, adminVars, suVars, lvVars, rmVars, tkVars, dbVars,
                cmVars, glVars, cbVars, lgVars>>
notLogin  == <<remote, rver, events, adminVars, suVars, lvVars, rmVars, tkVars, dbVars,
               cmVars, glVars, cbVars, pfVars>>

----
\* Bounds
NumIssues   == 2   \* issues in the collection when the view mounts
MaxOps      == 2   \* updateStatus invocations plus other clients' mutations in one run
MaxInFlight == 2   \* issues queries of the view in flight at once
MaxOverlap  == 1   \* invocations of fetchRealData under way at once
MaxExtra    == 1   \* mobile values up to MaxExtra characters off the pattern's length
MaxPoints   == 1100 \* point totals 0..MaxPoints
MaxVotes    == 3   \* invocations of handleVote
MaxLocates  == 2   \* invocations of handleGetLocation
MaxRequests == 2   \* requests the auth callback route handles
MaxPolls    == 2   \* session checks the interval of the sign-up view starts
MaxEdits    == 2   \* handleUpdate and handleAvatarUpload invocations on the profile view
MaxLogins   == 3   \* handleLogin and handleResetPassword invocations on the login view

----
\* The remote store

Statuses == {"Submitted", "In Progress", "Resolved"}
NoUser   == "none"
Users    == {"adm", "cit", "nop"}

\* profiles.role of a user; "nop" has no profile row (profile is null)
RoleOf(u) == IF u = "adm" THEN "admin" ELSE IF u = "cit" THEN "citizen" ELSE "undefined"

\* the status a new row gets when the insert carries none
DefaultStatus == "Submitted"

Issue(id, st, em, by) ==
    [id |-> id, status |-> st, is_emergency |-> em, submitted_by |-> by, image_url |-> "null"]

\* from('issues').insert([row]): the store numbers the row and fills the status a
\* row does not carry
\* the store gives every new row an id no row had before
FreshId == NumIssues + rver + 1

InsertInto(rows, row) ==
    Append(rows, [id           |-> FreshId,
                  status       |-> IF "status" \in DOMAIN row THEN row.status
                                                              ELSE DefaultStatus,
                  is_emergency |-> row.is_emergency,
                  submitted_by |-> row.submitted_by,
                  image_url    |-> row.image_url])

Reverse(s) == [k \in 1..Len(s) |-> s[Len(s) + 1 - k]]

\* from('issues').select('*').order('created_at', { ascending: false })
SelectAll(rows) == Reverse(rows)

\* from('issues').update({ status }).eq('id', id)
ApplyUpdate(rows, id, st) ==
    [k \in 1..Len(rows) |-> IF rows[k].id = id THEN [rows[k] EXCEPT !.status = st] ELSE rows[k]]

StatusIn(list, id) ==
    IF \E k \in 1..Len(list) : list[k].id = id
    THEN (CHOOSE r \in {list[k] : k \in 1..Len(list)} : r.id = id).status
    ELSE "absent"

IdsOf(list) == {list[k].id : k \in 1..Len(list)}

----
\* The views a specification does not mount

SignUpIdle ==
    /\ suVersion = "none" /\ formData = [mobile |-> <<>>, password |-> 0]
    /\ role = "citizen" /\ suLoading = FALSE /\ suError = "null"
    /\ verificationPending = FALSE /\ suPc = "none" /\ suCalls = <<>>
    /\ suTimer = FALSE /\ suChecks = <<>> /\ suPolled = 0

\* a percentage as the fraction num / den
NoProgress == [num |-> 0, den |-> 1]

NoView == [points |-> "", level |-> "", toNext |-> "", progress |-> NoProgress]

LevelsIdle == points = 0 /\ rewardsView = NoView /\ profileView = NoView

ReportIdle ==
    /\ file = FALSE /\ isEmergency = FALSE /\ uploading = FALSE /\ rmError = "null"
    /\ isSuccess = FALSE /\ rmPc = "closed" /\ rmUser = "?" /\ imageUrl = "null"
    /\ submitted = {} /\ rmCalls = <<>>
    /\ tkIssues = <<>> /\ tkLoading = FALSE /\ tkPc = "none" /\ tkUser = "?"
    /\ tkSince = {}

NoInvocation == [any |-> FALSE, ver |-> -1, ok |-> FALSE]

DashboardIdle ==
    /\ username = "" /\ dbStats = [resolved |-> 0, pending |-> 0] /\ myIssues = <<>>
    /\ isLoading = FALSE /\ dbFetches = EmptyBag /\ dbDone = NoInvocation

NoIssues == remote = <<>> /\ rver = 0 /\ events = <<>> /\ nOps = 0

CommunityIdle ==
    /\ cmIssues = <<>> /\ cmLoading = FALSE
    /\ votedIssues = [id \in {} |-> ""]
    /\ votes = EmptyBag
    /\ inserts = [id \in {} |-> 0]
    /\ verifications = <<>>

\* { lat: null, lng: null }
NoCoords == [known |-> FALSE, lat |-> 0, lng |-> 0]

LocateIdle ==
    /\ location = "" /\ coords = NoCoords /\ locationLoading = FALSE
    /\ glPc = "idle" /\ geoSupported = TRUE

\* searchParams.get of a parameter the URL does not have
Absent == "<null>"

NoRequest == [code |-> Absent, next |-> Absent]

CallbackIdle ==
    /\ cbReq = NoRequest /\ cbPc = "idle" /\ cbExchanges = <<>>
    /\ cbOut = <<>> /\ cbLog = <<>>

\* profile before fetchProfile has set it (null), and the empty formData
NoProfile == [id |-> "", full_name |-> "", username |-> "", mobile |-> "", avatar_url |-> ""]

NoProfileUpdate == [active |-> FALSE, formData |-> NoProfile]

NoUpload == [pc |-> "none", profile |-> NoProfile, url |-> ""]

ProfileIdle ==
    /\ pfRemote = NoProfile /\ pfProfile = NoProfile /\ pfFormData = NoProfile
    /\ pfEditing = FALSE /\ pfLoading = FALSE /\ pfUploading = FALSE /\ pfPc = "none"
    /\ pfUpdate = NoProfileUpdate /\ pfUpload = NoUpload /\ pfAllOk = TRUE

LoginIdle ==
    /\ lgView = "login" /\ lgLoading = FALSE /\ lgMessage = "null" /\ lgErrorMsg = "null"
    /\ lgPc = "none" /\ lgUser = "?" /\ lgQueries = 0 /\ lgPushes = <<>>

OtherIdle == CommunityIdle /\ LocateIdle /\ CallbackIdle /\ ProfileIdle /\ LoginIdle

AdminIdle ==
    /\ version = "none" /\ pc = "none" /\ who = "?"
    /\ issues = <<>> /\ stats = [pending |-> 0, emergency |-> 0, resolved |-> 0]
    /\ loading = FALSE /\ newIssueId = 0 /\ isAdmin = FALSE
    /\ fetches = EmptyBag /\ updates = EmptyBag
    /\ shown = [phase |-> "none", data |-> <<>>, ver |-> -1, kind |-> "none", u |-> "none"]

----
\* AdminPage

\* StatsOf with "pending" counting every issue, resolved ones too
StatsOfAllPending(data) ==
    [pending   |-> Len(data),
     emergency |-> Len(SelectSeq(data, LAMBDA i : i.is_emergency /\ i.status # "Resolved")),
     resolved  |-> Len(SelectSeq(data, LAMBDA i : i.status = "Resolved"))]

\* fetchIssues: the three counts
StatsOf(data) ==
    [pending   |-> Len(SelectSeq(data, LAMBDA i : i.status # "Resolved")),
     emergency |-> Len(SelectSeq(data, LAMBDA i : i.is_emergency /\ i.status # "Resolved")),
     resolved  |-> Len(SelectSeq(data, LAMBDA i : i.status = "Resolved"))]

NoStats == [pending |-> 0, emergency |-> 0, resolved |-> 0]

\* OptimisticMap without the optimistic step: the list waits for the refetch
OptimisticMapNone(list, id, newStatus) == list

\* a map that rebuilds the target issue from its id and the new status
OptimisticMapRebuilt(list, id, newStatus) ==
    [k \in 1..Len(list) |->
        IF list[k].id = id THEN Issue(id, newStatus, FALSE, list[k].submitted_by)
                           ELSE list[k]]

\* updateStatus: the optimistic map over the displayed list
OptimisticMap(list, id, newStatus) ==
    [k \in 1..Len(list) |->
        IF list[k].id = id THEN [list[k] EXCEPT !.status = newStatus] ELSE list[k]]

\* a status update request: id and status are what it carries; from, statsBefore and
\* verBefore record the display when updateStatus was invoked, prev and ver the store
\* when it applied the update
NoUpdate ==
    [id |-> 0, status |-> "none", phase |-> "none", from |-> "none", prev |-> "none",
     statsBefore |-> NoStats, verBefore |-> 0, ver |-> 0]

\* an issues query: kind tells who started it ("mount", "event", "update"), u the
\* update whose continuation started it; data and ver are set when the store answers
Fetch(kind, u) == [phase |-> "sent", data |-> <<>>, ver |-> 0, kind |-> kind, u |-> u]

NoFetch == [phase |-> "none", data |-> <<>>, ver |-> -1, kind |-> "none", u |-> NoUpdate]

\* a query on issues leaves the client
IssueQuery(kind, u) ==
    /\ BagCardinality(fetches) < MaxInFlight
    /\ fetches' = fetches (+) SetToBag({Fetch(kind, u)})
    /\ anonQueries' = IF who = NoUser /\ mounted THEN anonQueries \cup {"issues"} ELSE anonQueries

\* a change of the issues collection is published to the subscribed channel
Publish(type, id) == IF channel THEN Append(events, [type |-> type, id |-> id]) ELSE events

\* the collections the view may find: the first issue is an emergency
InitRemotes ==
    {[k \in 1..NumIssues |-> Issue(k, st[k], k = 1, "cit")] : st \in [1..NumIssues -> Statuses]}

\* AdminPage after its first render and its mount effect: checkAdmin awaits
\* getUser, and part_000 has subscribed to 'admin-feed'
AdminMounted ==
    /\ remote \in InitRemotes
    /\ rver = 0
    /\ events = <<>>
    /\ nOps = 0
    /\ SignUpIdle /\ LevelsIdle /\ ReportIdle /\ OtherIdle /\ DashboardIdle
    /\ version \in {"feed", "table"}
    /\ route = "/admin"
    /\ mounted = TRUE
    /\ channel = (version = "feed")
    /\ pc = "getUser"
    /\ who = "?"
    /\ issues = <<>>
    /\ stats = NoStats
    /\ loading = TRUE
    /\ newIssueId = 0
    /\ isAdmin = FALSE
    /\ alerts = {}
    /\ fetches = EmptyBag
    /\ updates = EmptyBag
    /\ shown = NoFetch
    /\ anonQueries = {}

\* an administrator opens /admin
Init == session = "adm" /\ AdminMounted

\* anybody else opens /admin
InitGuard == session \in (Users \cup {NoUser}) \ {"adm"} /\ AdminMounted

\* checkAdmin: getUser answers
GetUserResp ==
    /\ pc = "getUser"
    /\ who' = session
    /\ IF session = NoUser
       THEN route' = "/login" /\ pc' = "done"
       ELSE pc' = "profile" /\ UNCHANGED route
    /\ UNCHANGED <<envVars, mounted, channel, alerts, anonQueries, version, issues, stats,
                   loading, newIssueId, isAdmin, fetches, updates, shown, notAdmin>>

\* checkAdmin: the profiles query answers; an admin goes on to the issues query
ProfileResp ==
    /\ pc = "profile"
    /\ pc' = "done"
    /\ IF RoleOf(who) # "admin"
       THEN /\ route' = "/dashboard"
            /\ alerts' = IF version = "table" THEN alerts \cup {"ACCESS DENIED"} ELSE alerts
            /\ UNCHANGED <<isAdmin, fetches, anonQueries>>
       ELSE /\ isAdmin' = IF version = "table" /\ mounted THEN TRUE ELSE isAdmin
            /\ IssueQuery("mount", NoUpdate)
            /\ UNCHANGED <<route, alerts>>
    /\ UNCHANGED <<envVars, version, mounted, channel, who,
                   issues, stats, loading, newIssueId, updates, shown, notAdmin>>

\* the store answers an issues query with the rows as they are now
FetchServe(f) ==
    /\ f.phase = "sent"
    /\ fetches' = (fetches (-) SetToBag({f})) (+)
                  SetToBag({[f EXCEPT !.phase = "answered",
                                      !.data = SelectAll(remote), !.ver = rver]})
    /\ UNCHANGED <<envVars, navVars, version, pc, who, issues, stats, loading, newIssueId,
                   isAdmin, updates, shown, notAdmin>>

FetchDone(f, error) ==
    IF ~mounted
    THEN UNCHANGED <<issues, stats, loading, shown>>
    ELSE /\ loading' = FALSE
         /\ IF error
            THEN UNCHANGED <<issues, stats, shown>>
            ELSE /\ issues' = f.data
                 /\ stats' = IF version = "feed" THEN StatsOf(f.data) ELSE stats
                 /\ shown' = f

\* the answer of the store arrives
FetchDeliver(f) ==
    /\ f.phase = "answered"
    /\ fetches' = fetches (-) SetToBag({f})
    /\ FetchDone(f, FALSE)
    /\ UNCHANGED <<envVars, navVars, version, pc, who, newIssueId, isAdmin, updates, notAdmin>>

\* the query fails: the client gets { data: null, error }
FetchFail(f) ==
    /\ f.phase = "sent"
    /\ fetches' = fetches (-) SetToBag({f})
    /\ FetchDone(f, TRUE)
    /\ UNCHANGED <<envVars, navVars, version, pc, who, newIssueId, isAdmin, updates, notAdmin>>

\* updateStatus up to its await: the select of a displayed issue changed to newStatus
UpdateStatus(id, newStatus) ==
    /\ mounted /\ ~loading
    /\ nOps < MaxOps
    /\ id \in IdsOf(issues)
    /\ newStatus # StatusIn(issues, id)
    /\ issues' = OptimisticMap(issues, id, newStatus)
    /\ updates' = updates (+) SetToBag({[NoUpdate EXCEPT
                       !.id = id, !.status = newStatus, !.phase = "sent",
                       !.from = StatusIn(issues, id),
                       !.statsBefore = stats, !.verBefore = shown.ver]})
    /\ nOps' = nOps + 1
    /\ anonQueries' = IF who = NoUser THEN anonQueries \cup {"issues"} ELSE anonQueries
    /\ UNCHANGED <<session, remote, rver, events, route, mounted, channel, alerts,
                   version, pc, who, stats, loading, newIssueId, isAdmin, fetches, shown,
                   notAdmin>>

\* the store applies the update and publishes the change
UpdateServe(u) ==
    /\ u.phase = "sent"
    /\ remote' = ApplyUpdate(remote, u.id, u.status)
    /\ rver' = rver + 1
    /\ events' = Publish("UPDATE", u.id)
    /\ updates' = (updates (-) SetToBag({u})) (+)
                  SetToBag({[u EXCEPT !.phase = "ok", !.prev = StatusIn(remote, u.id),
                                      !.ver = rver + 1]})
    /\ UNCHANGED <<session, nOps, navVars, version, pc, who, issues, stats, loading,
                   newIssueId, isAdmin, fetches, shown, notAdmin>>

\* updateStatus after its await: error is the update's error
UpdateDone(u, error) ==
    IF version = "feed"
    THEN IssueQuery("update", u) /\ UNCHANGED alerts
    ELSE /\ alerts' = IF error /\ mounted
                      THEN alerts \cup {"Failed to update status"} ELSE alerts
         /\ UNCHANGED <<fetches, anonQueries>>

\* the answer to an applied update arrives
UpdateDeliver(u) ==
    /\ u.phase = "ok"
    /\ updates' = updates (-) SetToBag({u})
    /\ UpdateDone(u, FALSE)
    /\ UNCHANGED <<envVars, route, mounted, channel, version, pc, who, issues, stats,
                   loading, newIssueId, isAdmin, shown, notAdmin>>

\* the update fails: the store is unchanged and the client gets { error }
UpdateFail(u) ==
    /\ u.phase = "sent"
    /\ updates' = updates (-) SetToBag({u})
    /\ UpdateDone([u EXCEPT !.phase = "error"], TRUE)
    /\ UNCHANGED <<envVars, route, mounted, channel, version, pc, who, issues, stats,
                   loading, newIssueId, isAdmin, shown, notAdmin>>

\* a listener that applies the payload to the list instead of refetching
EventDeliverApply ==
    /\ channel /\ events # <<>>
    /\ newIssueId' = IF Head(events).type = "INSERT" /\ mounted
                     THEN Head(events).id ELSE newIssueId
    /\ issues' = SelectSeq(issues, LAMBDA r : ~(Head(events).type = "DELETE"
                                                /\ r.id = Head(events).id))
    /\ events' = Tail(events)
    /\ UNCHANGED <<session, remote, rver, nOps, route, mounted, channel, alerts,
                   anonQueries, version, pc, who, stats, loading, isAdmin, fetches,
                   updates, shown, notAdmin>>

\* the 'admin-feed' listener: any event starts a refetch
EventDeliver ==
    /\ channel /\ events # <<>>
    /\ newIssueId' = IF Head(events).type = "INSERT" /\ mounted
                     THEN Head(events).id ELSE newIssueId
    /\ IssueQuery("event", NoUpdate)
    /\ events' = Tail(events)
    /\ UNCHANGED <<session, remote, rver, nOps, route, mounted, channel, alerts,
                   version, pc, who, issues, stats, loading, isAdmin, updates, shown,
                   notAdmin>>

\* another client updates the status of an issue
OtherUpdate(id, st) ==
    /\ nOps < MaxOps
    /\ id \in IdsOf(remote)
    /\ st # StatusIn(remote, id)
    /\ remote' = ApplyUpdate(remote, id, st)
    /\ rver' = rver + 1
    /\ events' = Publish("UPDATE", id)
    /\ nOps' = nOps + 1
    /\ UNCHANGED <<session, navVars, adminVars, notAdmin>>

\* another client reports a new issue
OtherInsert(em) ==
    /\ nOps < MaxOps
    /\ remote' = Append(remote, Issue(FreshId, DefaultStatus, em, "cit"))
    /\ rver' = rver + 1
    /\ events' = Publish("INSERT", FreshId)
    /\ nOps' = nOps + 1
    /\ UNCHANGED <<session, navVars, adminVars, notAdmin>>

\* another client deletes an issue
OtherDelete(id) ==
    /\ nOps < MaxOps
    /\ id \in IdsOf(remote)
    /\ remote' = SelectSeq(remote, LAMBDA r : r.id # id)
    /\ rver' = rver + 1
    /\ events' = Publish("DELETE", id)
    /\ nOps' = nOps + 1
    /\ UNCHANGED <<session, navVars, adminVars, notAdmin>>

\* "Exit to User App"
ExitToUserApp ==
    /\ mounted /\ route = "/admin"
    /\ version = "feed" \/ ~loading
    /\ route' = "/dashboard"
    /\ UNCHANGED <<envVars, mounted, channel, alerts, anonQueries, adminVars, notAdmin>>

\* an unmount that leaves the channel subscribed
UnmountKeepChannel ==
    /\ mounted /\ route # "/admin"
    /\ mounted' = FALSE
    /\ UNCHANGED <<envVars, route, channel, alerts, anonQueries, adminVars, notAdmin>>

\* the navigation completes: the effect's cleanup removes the channel
Unmount ==
    /\ mounted /\ route # "/admin"
    /\ mounted' = FALSE
    /\ channel' = FALSE
    /\ events' = <<>>
    /\ UNCHANGED <<session, remote, rver, nOps, route, alerts, anonQueries, adminVars,
                   notAdmin>>

Next ==
    \/ GetUserResp
    \/ ProfileResp
    \/ \E f \in BagToSet(fetches) : FetchServe(f)
    \/ \E f \in BagToSet(fetches) : FetchDeliver(f)
    \/ \E f \in BagToSet(fetches) : FetchFail(f)
    \/ \E id \in IdsOf(issues), s \in Statuses : UpdateStatus(id, s)
    \/ \E u \in BagToSet(updates) : UpdateServe(u)
    \/ \E u \in BagToSet(updates) : UpdateDeliver(u)
    \/ \E u \in BagToSet(updates) : UpdateFail(u)
    \/ EventDeliver
    \/ \E id \in IdsOf(remote), s \in Statuses : OtherUpdate(id, s)
    \/ \E em \in BOOLEAN : OtherInsert(em)
    \/ \E id \in IdsOf(remote) : OtherDelete(id)
    \/ ExitToUserApp
    \/ Unmount

Spec == Init /\ [][Next]_vars

SpecGuard == InitGuard /\ [][Next]_vars

----
\* SignUpPage

\* the pattern /^[6-9]\d{9}$/ : one character of 6..9, then RestDigits digits
RestDigits == 9
\* formData.password.length < MinPassword is rejected
MinPassword == 6
\* maxLength of the mobile input of signup/page.js
MobileMaxLength == 10

Digits == {"0", "1", "2", "3", "4", "5", "6", "7", "8", "9"}

isValidIndianMobile(number) ==
    /\ Len(number) = 1 + RestDigits
    /\ number[1] \in {"6", "7", "8", "9"}
    /\ \A k \in 2..Len(number) : number[k] \in Digits

\* a mobile value of len characters: first, then zeros, with ch at position pos
Mobile(len, first, pos, ch) ==
    [k \in 1..len |-> IF k = 1 THEN first ELSE IF k = pos THEN ch ELSE "0"]

\* the values the mobile input of a version lets through: it is required
\* everywhere, and signup/page.js caps its length
Mobiles(v) ==
    {m \in {Mobile(len, first, pos, ch) :
                len \in {1} \cup ((1 + RestDigits - MaxExtra)..(1 + RestDigits + MaxExtra)),
                first \in {"0", "5", "6", "9", "+"},
                pos \in {2, 1 + RestDigits, 1 + RestDigits + MaxExtra},
                ch \in {"0", "7", "a"}} :
        v \in {"polling", "alert"} => Len(m) <= MobileMaxLength}

PasswordLengths == {1, MinPassword - 1, MinPassword}

SignUpMounted ==
    /\ session = NoUser /\ NoIssues /\ AdminIdle /\ LevelsIdle /\ ReportIdle /\ OtherIdle /\ DashboardIdle
    /\ route = "/signup" /\ mounted = TRUE /\ channel = FALSE
    /\ alerts = {} /\ anonQueries = {}
    /\ suVersion \in {"polling", "alert", "plain"}
    /\ formData = [mobile |-> <<>>, password |-> 0]
    /\ role = "citizen"
    /\ suLoading = FALSE
    /\ suError = "null"
    /\ verificationPending = FALSE
    /\ suPc = "form"
    /\ suCalls = <<>>
    /\ suTimer = FALSE /\ suChecks = <<>> /\ suPolled = 0

InitSignUp == SignUpMounted

\* handleChange of the mobile input
HandleChangeMobile(value) ==
    /\ mounted /\ ~verificationPending
    /\ value # formData.mobile
    /\ formData' = [formData EXCEPT !.mobile = value]
    /\ suError' = IF suVersion = "plain" THEN suError ELSE "null"
    /\ UNCHANGED <<suVersion, role, suLoading, verificationPending, suPc, suCalls,
                   navVars, pollVars, notSignUp>>

\* handleChange of the password input
HandleChangePassword(length) ==
    /\ mounted /\ ~verificationPending
    /\ length # formData.password
    /\ formData' = [formData EXCEPT !.password = length]
    /\ suError' = IF suVersion = "plain" THEN suError ELSE "null"
    /\ UNCHANGED <<suVersion, role, suLoading, verificationPending, suPc, suCalls,
                   navVars, pollVars, notSignUp>>

SetRole(r) ==
    /\ mounted /\ ~verificationPending
    /\ r # role
    /\ role' = r
    /\ UNCHANGED <<suVersion, formData, suLoading, suError, verificationPending, suPc,
                   suCalls, navVars, pollVars, notSignUp>>

\* handleSignUp up to its first await or its early return; the form submits only
\* with its required inputs filled and its button enabled
HandleSignUp ==
    /\ mounted /\ ~verificationPending /\ ~suLoading
    /\ formData.mobile # <<>> /\ formData.password > 0
    /\ IF suVersion = "plain"
       THEN /\ suLoading' = TRUE
            /\ suPc' = "signUp"
            /\ suCalls' = <<"auth.signUp">>
            /\ UNCHANGED suError
       ELSE IF ~isValidIndianMobile(formData.mobile)
       THEN /\ suError' = "Please enter a valid 10-digit Indian mobile number."
            /\ suLoading' = FALSE
            /\ suPc' = "rejected"
            /\ suCalls' = <<>>
       ELSE IF formData.password < MinPassword
       THEN /\ suError' = "Password must be at least 6 characters."
            /\ suLoading' = FALSE
            /\ suPc' = "rejected"
            /\ suCalls' = <<>>
       ELSE /\ suError' = "null"
            /\ suLoading' = TRUE
            /\ suPc' = "signUp"
            /\ suCalls' = <<"auth.signUp">>
    /\ UNCHANGED <<suVersion, formData, role, verificationPending, navVars, pollVars, notSignUp>>

\* auth.signUp answers with an error
SignUpError ==
    /\ suPc = "signUp"
    /\ suLoading' = FALSE
    /\ suPc' = "failed"
    /\ suError' = IF suVersion = "plain" THEN suError ELSE "User already registered"
    /\ alerts' = IF suVersion = "plain" THEN alerts \cup {"User already registered"} ELSE alerts
    /\ UNCHANGED <<suVersion, formData, role, verificationPending, suCalls,
                   route, mounted, channel, anonQueries, pollVars, notSignUp>>

\* auth.signUp answers with a user, and with a session when email confirmation is
\* off; handleSignUp goes on to the profile upsert
SignUpOk(withSession) ==
    /\ suPc = "signUp"
    /\ suPc' = IF withSession THEN "upsert+session" ELSE "upsert"
    /\ suCalls' = Append(suCalls, "profiles.upsert")
    /\ UNCHANGED <<suVersion, formData, role, suLoading, suError, verificationPending,
                   navVars, pollVars, notSignUp>>

\* the upsert settles, with or without an error: the rest of handleSignUp, and the
\* auto-redirect effect of the render that follows
UpsertSettled ==
    /\ suPc \in {"upsert", "upsert+session"}
    /\ suLoading' = FALSE
    /\ suPc' = "done"
    /\ LET home == IF role = "authority" THEN "/admin" ELSE "/dashboard"
       IN  IF suVersion = "plain" \/ suPc = "upsert+session"
           THEN route' = home /\ UNCHANGED <<alerts, verificationPending>>
           ELSE IF suVersion = "alert"
           THEN /\ alerts' = alerts \cup {"Account created! Please check your email."}
                /\ route' = "/login"
                /\ UNCHANGED verificationPending
           ELSE /\ verificationPending' = TRUE
                /\ UNCHANGED <<route, alerts>>
    /\ suTimer' = (mounted /\ verificationPending')
    /\ UNCHANGED <<suVersion, formData, role, suError, suCalls,
                   mounted, channel, anonQueries, suChecks, suPolled, notSignUp>>

\* the user confirms the address in another tab: the browser holds a session
SessionAppears ==
    /\ suPc = "done" /\ verificationPending /\ session = NoUser
    /\ session' = "cit"
    /\ UNCHANGED <<remote, rver, events, nOps, navVars, suVars, adminVars, lvVars, rmVars,
                   tkVars, dbVars, otherVars>>

\* the interval fires: its callback up to the await of getSession
PollTick ==
    /\ suTimer
    /\ suPolled < MaxPolls
    /\ suPolled' = suPolled + 1
    /\ suChecks' = Append(suChecks, role)
    /\ UNCHANGED <<suVersion, formData, role, suLoading, suError, verificationPending,
                   suPc, suCalls, suTimer, navVars, notSignUp>>

\* getSession of check k answers: with a session the callback navigates
CheckSettled(k) ==
    /\ k \in 1..Len(suChecks)
    /\ suChecks' = [j \in 1..(Len(suChecks) - 1) |->
                        IF j < k THEN suChecks[j] ELSE suChecks[j + 1]]
    /\ route' = IF session = NoUser THEN route
                ELSE IF suChecks[k] = "authority" THEN "/admin" ELSE "/dashboard"
    /\ UNCHANGED <<suVersion, formData, role, suLoading, suError, verificationPending,
                   suPc, suCalls, suTimer, suPolled, mounted, channel, alerts,
                   anonQueries, notSignUp>>

\* the view unmounts without clearing the interval
SignUpUnmountKeepTimer ==
    /\ mounted /\ suPc \notin {"signUp", "upsert", "upsert+session"}
    /\ mounted' = FALSE
    /\ route' = IF route = "/signup" THEN "/login" ELSE route
    /\ UNCHANGED <<suVersion, formData, role, suLoading, suError, verificationPending,
                   suPc, suCalls, pollVars, channel, alerts, anonQueries, notSignUp>>

\* the view unmounts, with no handleSignUp in flight: a navigation started by
\* router.push completes or the user leaves for the login page; the cleanup of the
\* effect clears the interval
SignUpUnmount ==
    /\ mounted /\ suPc \notin {"signUp", "upsert", "upsert+session"}
    /\ mounted' = FALSE
    /\ suTimer' = FALSE
    /\ route' = IF route = "/signup" THEN "/login" ELSE route
    /\ UNCHANGED <<suVersion, formData, role, suLoading, suError, verificationPending,
                   suPc, suCalls, suChecks, suPolled, channel, alerts, anonQueries,
                   notSignUp>>

NextSignUp ==
    \/ \E v \in Mobiles(suVersion) : HandleChangeMobile(v)
    \/ \E n \in PasswordLengths : HandleChangePassword(n)
    \/ \E r \in {"citizen", "authority"} : SetRole(r)
    \/ HandleSignUp
    \/ SignUpError
    \/ \E b \in BOOLEAN : SignUpOk(b)
    \/ UpsertSettled
    \/ SessionAppears
    \/ PollTick
    \/ \E k \in 1..MaxPolls : CheckSettled(k)
    \/ SignUpUnmount

SpecSignUp == InitSignUp /\ [][NextSignUp]_vars

----
\* RewardsPage and ProfilePage: the level of a point total

\* how JSX renders an integer
DigitText(d) ==
    CASE d = 0 -> "0" [] d = 1 -> "1" [] d = 2 -> "2" [] d = 3 -> "3" [] d = 4 -> "4"
      [] d = 5 -> "5" [] d = 6 -> "6" [] d = 7 -> "7" [] d = 8 -> "8" [] d = 9 -> "9"

RECURSIVE NumText(_)
NumText(n) ==
    IF n < 0 THEN "-" \o NumText(0 - n)
    ELSE IF n < 10 THEN DigitText(n)
    ELSE NumText(n \div 10) \o DigitText(n % 10)

\* currentLevel with level 2 starting one point late
currentLevelLate(p) == IF p <= 100 THEN 1 ELSE IF p < 500 THEN 2 ELSE 3

currentLevel(p) == IF p < 100 THEN 1 ELSE IF p < 500 THEN 2 ELSE 3

nextLevelPoints(p) ==
    IF currentLevel(p) = 1 THEN 100 ELSE IF currentLevel(p) = 2 THEN 500 ELSE 1000

prevLevelPoints(p) ==
    IF currentLevel(p) = 1 THEN 0 ELSE IF currentLevel(p) = 2 THEN 100 ELSE 500

MathMin(a, b) == IF a < b THEN a ELSE b

MathMax(a, b) == IF a > b THEN a ELSE b

\* a progress percentage without the limit to 100
progressPercentUnlimited(p) ==
    [num |-> MathMax(0, (p - prevLevelPoints(p)) * 100),
     den |-> nextLevelPoints(p) - prevLevelPoints(p)]

\* Math.min(100, Math.max(0, ((points - prev) / (next - prev)) * 100)), as the
\* fraction num / den with den = next - prev
progressPercent(p) ==
    [num |-> MathMin(100 * (nextLevelPoints(p) - prevLevelPoints(p)),
                     MathMax(0, (p - prevLevelPoints(p)) * 100)),
     den |-> nextLevelPoints(p) - prevLevelPoints(p)]

\* the level ProfilePage prints
ProfileLevel(p) == IF p < 100 THEN "1" ELSE IF p < 500 THEN "2" ELSE "3"

\* what RewardsPage renders from its points state
RewardsView(p, stillLoading) ==
    [points |-> IF stillLoading THEN "..." ELSE NumText(p),
     level  |-> NumText(currentLevel(p)),
     toNext |-> NumText(nextLevelPoints(p) - p),
     progress |-> progressPercent(p)]

InitLevels ==
    /\ session = "cit" /\ NoIssues /\ AdminIdle /\ SignUpIdle /\ ReportIdle /\ OtherIdle /\ DashboardIdle
    /\ route = "/" /\ mounted = TRUE /\ channel = FALSE
    /\ alerts = {} /\ anonQueries = {}
    /\ points \in 0..MaxPoints
    /\ rewardsView = RewardsView(0, TRUE)
    /\ profileView = NoView

\* RewardsPage.fetchData stores profileData.points and the page renders from it
RewardsFetchData ==
    /\ rewardsView.points = "..."
    /\ rewardsView' = RewardsView(points, FALSE)
    /\ UNCHANGED <<points, profileView, notLevels>>

\* ProfilePage.fetchProfile stores the profile and the page renders from it
ProfileFetchProfile ==
    /\ profileView = NoView
    /\ profileView' = [points |-> NumText(points), level |-> ProfileLevel(points),
                       toNext |-> "", progress |-> NoProgress]
    /\ UNCHANGED <<points, rewardsView, notLevels>>

NextLevels == RewardsFetchData \/ ProfileFetchProfile

SpecLevels == InitLevels /\ [][NextLevels]_vars

----
\* ReportIssueModal and TrackIssuesPage

\* the row handleSubmit inserts, with a status field the client sets itself
NewIssueRowPending(user, url, emergency) ==
    [submitted_by |-> user, image_url |-> url, is_emergency |-> emergency,
     status |-> "Pending"]

\* the row handleSubmit inserts
NewIssueRow(user, url, emergency) ==
    [submitted_by |-> user, image_url |-> url, is_emergency |-> emergency]

\* the same query without the submitted_by filter
MyIssuesOfAll(rows, user) == Reverse(rows)

\* from('issues').select('*').eq('submitted_by', user).order('created_at', descending)
MyIssues(rows, user) == Reverse(SelectSeq(rows, LAMBDA r : r.submitted_by = user))

\* the issues the store holds when the citizen opens the application
ReportRemotes ==
    {[k \in 1..NumIssues |-> Issue(k, st[k], FALSE, by[k])] :
        st \in [1..NumIssues -> Statuses], by \in [1..NumIssues -> {"cit", "adm"}]}

InitReport ==
    /\ session \in Users \cup {NoUser}
    /\ remote \in ReportRemotes /\ rver = 0 /\ events = <<>> /\ nOps = 0
    /\ route = "/dashboard" /\ mounted = TRUE /\ channel = FALSE
    /\ alerts = {} /\ anonQueries = {}
    /\ AdminIdle /\ SignUpIdle /\ LevelsIdle /\ ReportIdle /\ OtherIdle /\ DashboardIdle

\* the modal is opened: its state is fresh
OpenModal(emergency) ==
    /\ rmPc = "closed" /\ route = "/dashboard"
    /\ nOps < MaxOps
    /\ rmPc' = "form"
    /\ isEmergency' = emergency
    /\ file' = FALSE /\ uploading' = FALSE /\ rmError' = "null" /\ isSuccess' = FALSE
    /\ rmUser' = "?" /\ imageUrl' = "null"
    /\ UNCHANGED <<submitted, rmCalls, tkVars, envVars, navVars, notReport>>

\* a photo is chosen or removed
SetFile(f) ==
    /\ rmPc = "form" /\ ~uploading /\ f # file
    /\ file' = f
    /\ UNCHANGED <<isEmergency, uploading, rmError, isSuccess, rmPc, rmUser, imageUrl,
                   submitted, rmCalls, tkVars, envVars, navVars, notReport>>

\* handleSubmit up to its await of getUser
HandleSubmit ==
    /\ rmPc = "form" /\ ~uploading
    /\ nOps < MaxOps
    /\ nOps' = nOps + 1
    /\ uploading' = TRUE
    /\ rmError' = "null"
    /\ rmPc' = "getUser"
    /\ UNCHANGED <<file, isEmergency, isSuccess, rmUser, imageUrl, submitted, rmCalls,
                   tkVars,                   session, remote, rver, events, navVars, notReport>>

\* getUser answers: without a user the submission ends; with a photo the upload
\* starts, without one the insert is sent
SubmitGetUserResp ==
    /\ rmPc = "getUser"
    /\ rmUser' = session
    /\ imageUrl' = "null"
    /\ IF session = NoUser
       THEN rmError' = "Login required." /\ uploading' = FALSE /\ rmPc' = "form"
       ELSE /\ rmPc' = IF file THEN "upload" ELSE "insert"
            /\ UNCHANGED <<rmError, uploading>>
    /\ UNCHANGED <<file, isEmergency, isSuccess, submitted, rmCalls, tkVars, envVars, navVars,
                   notReport>>

\* the upload settles: its public URL is kept only when it succeeded
UploadSettled(uploadError) ==
    /\ rmPc = "upload"
    /\ imageUrl' = IF uploadError THEN "null" ELSE "url"
    /\ rmPc' = "insert"
    /\ UNCHANGED <<file, isEmergency, uploading, rmError, isSuccess, rmUser, submitted, rmCalls,
                   tkVars, envVars, navVars, notReport>>

\* the insert settles
InsertSettled(insertError) ==
    /\ rmPc = "insert"
    /\ uploading' = FALSE
    /\ IF insertError
       THEN /\ rmError' = "insert failed"
            /\ rmPc' = "form"
            /\ UNCHANGED <<remote, rver, events, isSuccess, submitted, rmCalls>>
       ELSE /\ remote' = InsertInto(remote, NewIssueRow(rmUser, imageUrl, isEmergency))
            /\ rver' = rver + 1
            /\ events' = Publish("INSERT", FreshId)
            /\ isSuccess' = TRUE
            /\ rmPc' = "success"
            /\ submitted' = submitted \cup
                   {[id |-> FreshId, by |-> rmUser, photo |-> file]}
            /\ UNCHANGED <<rmError, rmCalls>>
    /\ UNCHANGED <<file, isEmergency, rmUser, imageUrl, tkVars, session, nOps, navVars,
                   notReport>>

\* the timer with only onClose
SuccessTimerCloseOnly ==
    /\ rmPc = "success"
    /\ rmCalls' = rmCalls \o <<"onClose">>
    /\ rmPc' = "closed"
    /\ UNCHANGED <<file, isEmergency, uploading, rmError, isSuccess, rmUser, imageUrl,
                   submitted, tkVars, envVars, navVars, notReport>>

\* the 2 s timer of a successful submission: onIssueSubmitted, then onClose, which
\* makes the dashboard close the modal
SuccessTimer ==
    /\ rmPc = "success"
    /\ rmCalls' = rmCalls \o <<"onIssueSubmitted", "onClose">>
    /\ rmPc' = "closed"
    /\ UNCHANGED <<file, isEmergency, uploading, rmError, isSuccess, rmUser, imageUrl,
                   submitted, tkVars, envVars, navVars, notReport>>

\* My Reports is opened: TrackIssuesPage mounts and invokes fetchMyIssues
OpenTrack ==
    /\ route = "/dashboard" /\ rmPc = "closed"
    /\ route' = "/track"
    /\ tkIssues' = <<>>
    /\ tkLoading' = TRUE
    /\ tkPc' = "getUser"
    /\ tkUser' = "?"
    /\ tkSince' = submitted
    /\ UNCHANGED <<rmVars, envVars, mounted, channel, alerts, anonQueries, notReport>>

TrackGetUserResp ==
    /\ tkPc = "getUser"
    /\ tkUser' = session
    /\ IF session = NoUser
       THEN route' = "/login" /\ tkPc' = "done"
       ELSE tkPc' = "query" /\ UNCHANGED route
    /\ UNCHANGED <<tkIssues, tkLoading, tkSince, rmVars, envVars, mounted, channel, alerts,
                   anonQueries, notReport>>

TrackQueryResp(error) ==
    /\ tkPc = "query"
    /\ tkIssues' = IF error THEN tkIssues ELSE MyIssues(remote, tkUser)
    /\ tkLoading' = FALSE
    /\ tkPc' = IF error THEN "failed" ELSE "done"
    /\ UNCHANGED <<tkUser, tkSince, rmVars, envVars, navVars, notReport>>

\* back to the dashboard
LeaveTrack ==
    /\ route = "/track" /\ tkPc \in {"done", "failed"}
    /\ route' = "/dashboard"
    /\ UNCHANGED <<tkVars, rmVars, envVars, mounted, channel, alerts, anonQueries,
                   notReport>>

NextReport ==
    \/ \E em \in BOOLEAN : OpenModal(em)
    \/ \E f \in BOOLEAN : SetFile(f)
    \/ HandleSubmit
    \/ SubmitGetUserResp
    \/ \E e \in BOOLEAN : UploadSettled(e)
    \/ \E e \in BOOLEAN : InsertSettled(e)
    \/ SuccessTimer
    \/ OpenTrack
    \/ TrackGetUserResp
    \/ \E e \in BOOLEAN : TrackQueryResp(e)
    \/ LeaveTrack
    \/ \E em \in BOOLEAN : OtherInsert(em)

SpecReport == InitReport /\ [][NextReport]_vars

----
\* DashboardPage

\* .limit(ListLimit) of the mini-list
ListLimit == 3

\* a count or a data field of an answer that carries an error
Null == -1

\* c || 0
OrZero(c) == IF c = Null THEN 0 ELSE c

Limit(rows, n) == SubSeq(rows, 1, IF Len(rows) < n THEN Len(rows) ELSE n)

\* profiles.username of a user; "nop" has no profile row
UsernameOf(u) == IF u = "nop" THEN "undefined" ELSE u

\* an invocation of fetchRealData awaiting getUser. ver is the state of the
\* collection at its first issues query; succ tells that an invocation had set
\* the view when this one began and that none has since
FetchRealData ==
    [pc |-> "getUser", user |-> "?", resolvedCount |-> Null, pendingCount |-> Null,
     ver |-> -1, ok |-> TRUE, succ |-> dbDone.any]

\* invocation f goes on as g
Step(f, g) == (dbFetches (-) SetToBag({f})) (+) SetToBag({g})

\* invocation f ends after setting the view: the others no longer follow the
\* invocation on display
EndOf(f) ==
    LET rest == dbFetches (-) SetToBag({f})
        late(h) == [h EXCEPT !.succ = FALSE]
    IN  [g \in {late(h) : h \in BagToSet(rest)} |->
            LET same == {h \in BagToSet(rest) : late(h) = g}
            IN  IF Cardinality(same) = 1 THEN rest[CHOOSE h \in same : TRUE]
                ELSE rest[[g EXCEPT !.succ = TRUE]] + rest[[g EXCEPT !.succ = FALSE]]]

\* the issues the store holds when the dashboard mounts: the first is another
\* user's
DashboardRemotes ==
    {[k \in 1..NumIssues |-> Issue(k, st[k], FALSE, IF k = 1 THEN "adm" ELSE "cit")] :
        st \in [1..NumIssues -> Statuses]}

\* the dashboard after its first render and its mount effect
InitDashboard ==
    /\ session \in {"cit", "nop", NoUser}
    /\ remote \in DashboardRemotes /\ rver = 0 /\ events = <<>> /\ nOps = 0
    /\ route = "/dashboard" /\ mounted = TRUE /\ channel = TRUE
    /\ alerts = {} /\ anonQueries = {}
    /\ AdminIdle /\ SignUpIdle /\ LevelsIdle /\ ReportIdle /\ OtherIdle
    /\ username = "" /\ dbStats = [resolved |-> 0, pending |-> 0] /\ myIssues = <<>>
    /\ isLoading = TRUE
    /\ dbFetches = SetToBag({[pc |-> "getUser", user |-> "?", resolvedCount |-> Null,
                              pendingCount |-> Null, ver |-> -1, ok |-> TRUE,
                              succ |-> FALSE]})
    /\ dbDone = NoInvocation

\* the 'dashboard-realtime' listener: any change event invokes fetchRealData
DbEventDeliver ==
    /\ mounted /\ channel /\ events # <<>>
    /\ BagCardinality(dbFetches) < MaxOverlap
    /\ events' = Tail(events)
    /\ dbFetches' = dbFetches (+) SetToBag({FetchRealData})
    /\ isLoading' = TRUE
    /\ UNCHANGED <<session, remote, rver, nOps, navVars, username, dbStats, myIssues,
                   dbDone, notDashboard>>

\* getUser answers: with an error or without a user the view is sent to /login and
\* the invocation ends in its finally
DbGetUserResp(f, authError) ==
    /\ f.pc = "getUser"
    /\ IF authError \/ session = NoUser
       THEN /\ route' = "/login"
            /\ dbFetches' = dbFetches (-) SetToBag({f})
            /\ isLoading' = IF mounted THEN FALSE ELSE isLoading
       ELSE /\ dbFetches' = Step(f, [f EXCEPT !.pc = "profile", !.user = session])
            /\ UNCHANGED <<route, isLoading>>
    /\ UNCHANGED <<envVars, mounted, channel, alerts, anonQueries, username, dbStats,
                   myIssues, dbDone, notDashboard>>

\* the profile query answers; the resolved count is requested
DbProfileResp(f, error) ==
    /\ f.pc = "profile"
    /\ username' = IF ~mounted THEN username
                   ELSE IF error \/ UsernameOf(f.user) = "undefined" THEN "Citizen"
                   ELSE UsernameOf(f.user)
    /\ dbFetches' = Step(f, [f EXCEPT !.pc = "resolved"])
    /\ UNCHANGED <<envVars, navVars, dbStats, myIssues, isLoading, dbDone,
                   notDashboard>>

\* the count of resolved issues answers; the count of the others is requested
DbResolvedCountResp(f, error) ==
    /\ f.pc = "resolved"
    /\ dbFetches' = Step(f,
          [f EXCEPT !.pc = "pending", !.ver = rver, !.ok = ~error,
                    !.resolvedCount = IF error THEN Null
                                      ELSE Len(SelectSeq(remote, LAMBDA r : r.status = "Resolved"))])
    /\ UNCHANGED <<envVars, navVars, username, dbStats, myIssues, isLoading, dbDone,
                   notDashboard>>

\* the count of the issues not resolved answers; the user's issues are requested
DbPendingCountResp(f, error) ==
    /\ f.pc = "pending"
    /\ dbFetches' = Step(f,
          [f EXCEPT !.pc = "list", !.ok = f.ok /\ ~error,
                    !.pendingCount = IF error THEN Null
                                     ELSE Len(SelectSeq(remote, LAMBDA r : r.status # "Resolved"))])
    /\ UNCHANGED <<envVars, navVars, username, dbStats, myIssues, isLoading, dbDone,
                   notDashboard>>

\* the user's issues answer: the rest of fetchRealData, its finally included
DbIssuesResp(f, error) ==
    /\ f.pc = "list"
    /\ IF mounted
       THEN /\ dbStats' = [resolved |-> OrZero(f.resolvedCount),
                           pending  |-> OrZero(f.pendingCount)]
            /\ myIssues' = IF error THEN <<>> ELSE Limit(MyIssues(remote, f.user), ListLimit)
            /\ isLoading' = FALSE
            /\ dbDone' = [any |-> TRUE, ver |-> f.ver, ok |-> f.ok /\ ~error]
            /\ dbFetches' = EndOf(f)
       ELSE /\ dbFetches' = dbFetches (-) SetToBag({f})
            /\ UNCHANGED <<dbStats, myIssues, isLoading, dbDone>>
    /\ UNCHANGED <<envVars, navVars, username, notDashboard>>

\* the user leaves the dashboard: the cleanup removes the channel
DbUnmount ==
    /\ mounted
    /\ mounted' = FALSE
    /\ channel' = FALSE
    /\ events' = <<>>
    /\ route' = IF route = "/dashboard" THEN "/track" ELSE route
    /\ UNCHANGED <<session, remote, rver, nOps, alerts, anonQueries, dbVars, notDashboard>>

NextDashboard ==
    \/ DbEventDeliver
    \/ \E f \in BagToSet(dbFetches), e \in BOOLEAN : DbGetUserResp(f, e)
    \/ \E f \in BagToSet(dbFetches), e \in BOOLEAN : DbProfileResp(f, e)
    \/ \E f \in BagToSet(dbFetches), e \in BOOLEAN : DbResolvedCountResp(f, e)
    \/ \E f \in BagToSet(dbFetches), e \in BOOLEAN : DbPendingCountResp(f, e)
    \/ \E f \in BagToSet(dbFetches), e \in BOOLEAN : DbIssuesResp(f, e)
    \/ \E id \in IdsOf(remote), st \in Statuses : OtherUpdate(id, st)
    \/ \E em \in BOOLEAN : OtherInsert(em)
    \/ \E id \in IdsOf(remote) : OtherDelete(id)
    \/ DbUnmount

SpecDashboard == InitDashboard /\ [][NextDashboard]_vars

----
\* CommunityPage (login/page.js from line 120: app/community/page.js)

VoteKind(isDispute) == IF isDispute THEN "dispute" ELSE "verify"

\* from('issues').select('*').neq('status', 'Resolved').order('created_at', desc)
SelectOpen(rows) == SelectSeq(SelectAll(rows), LAMBDA r : r.status # "Resolved")

InitCommunity ==
    /\ session \in {"cit", NoUser}
    /\ remote \in InitRemotes /\ rver = 0 /\ events = <<>> /\ nOps = 0
    /\ route = "/community" /\ mounted = TRUE /\ channel = FALSE
    /\ alerts = {} /\ anonQueries = {}
    /\ AdminIdle /\ SignUpIdle /\ LevelsIdle /\ ReportIdle /\ DashboardIdle /\ LocateIdle
    /\ CallbackIdle /\ ProfileIdle /\ LoginIdle
    /\ cmIssues = <<>> /\ cmLoading = TRUE
    /\ votedIssues = [id \in IdsOf(remote) |-> ""]
    /\ votes = EmptyBag
    /\ inserts = [id \in IdsOf(remote) |-> 0]
    /\ verifications = <<>>

\* fetchCommunityIssues: the query of the mount effect settles
FetchCommunityIssuesResp(error) ==
    /\ cmLoading
    /\ cmIssues' = IF error \/ ~mounted THEN cmIssues ELSE SelectOpen(remote)
    /\ cmLoading' = FALSE
    /\ UNCHANGED <<envVars, navVars, votedIssues, votes, inserts, verifications,
                   notCommunity>>


\* handleVote up to its first await
HandleVote(issueId, isDispute) ==
    /\ mounted /\ nOps < MaxVotes
    /\ nOps' = nOps + 1
    /\ IF votedIssues[issueId] # ""
       THEN /\ alerts' = alerts \cup {"Already voted!"}
            /\ UNCHANGED votes
       ELSE /\ votes' = votes (+) SetToBag({[id |-> issueId, isDispute |-> isDispute,
                                             pc |-> "getUser", user |-> "?"]})
            /\ UNCHANGED alerts
    /\ UNCHANGED <<session, remote, rver, events, route, mounted, channel, anonQueries,
                   cmIssues, cmLoading, votedIssues, inserts, verifications,
                   notCommunity>>

\* handleVote after auth.getUser(): redirect without a user, else mark the issue
\* as voted and send the insert
VoteGetUserResp(v) ==
    /\ v.pc = "getUser"
    /\ IF session = NoUser
       THEN /\ route' = "/login"
            /\ votes' = votes (-) SetToBag({v})
            /\ UNCHANGED <<votedIssues, inserts>>
       ELSE /\ votedIssues' = IF mounted
                              THEN [votedIssues EXCEPT ![v.id] = VoteKind(v.isDispute)]
                              ELSE votedIssues
            /\ votes' = (votes (-) SetToBag({v})) (+)
                        SetToBag({[v EXCEPT !.pc = "insert", !.user = session]})
            /\ inserts' = [inserts EXCEPT ![v.id] = @ + 1]
            /\ UNCHANGED route
    /\ UNCHANGED <<envVars, mounted, channel, alerts, anonQueries, cmIssues, cmLoading,
                   verifications, notCommunity>>

\* the insert into verifications settles; handleVote reads no error and ends
VoteInsertSettled(v, error) ==
    /\ v.pc = "insert"
    /\ verifications' = IF error THEN verifications
                        ELSE Append(verifications, [issue_id |-> v.id, user_id |-> v.user,
                                                    is_dispute |-> v.isDispute])
    /\ votes' = votes (-) SetToBag({v})
    /\ UNCHANGED <<envVars, navVars, cmIssues, cmLoading, votedIssues, inserts,
                   notCommunity>>

\* the view is left (after the redirect, or by the user)
CommunityUnmount ==
    /\ mounted
    /\ mounted' = FALSE
    /\ UNCHANGED <<envVars, route, channel, alerts, anonQueries, cmVars, notCommunity>>

\* the Verify and Dispute buttons of an issue are disabled once votedIssues holds
\* a vote for it
NextCommunity ==
    \/ \E e \in BOOLEAN : FetchCommunityIssuesResp(e)
    \/ \E id \in IdsOf(cmIssues), d \in BOOLEAN : votedIssues[id] = "" /\ HandleVote(id, d)
    \/ \E v \in BagToSet(votes) : VoteGetUserResp(v)
    \/ \E v \in BagToSet(votes), e \in BOOLEAN : VoteInsertSettled(v, e)
    \/ CommunityUnmount

SpecCommunity == InitCommunity /\ [][NextCommunity]_vars

----
\* ReportIssueModal: the location field and handleGetLocation

\* what a state setter given undefined leaves in the state
Undefined == "<undefined>"

\* positions the device reports (whole degrees)
Latitudes  == {-33, 0, 28}
Longitudes == {-70, 77}

\* the address Nominatim returns as display_name
Address(lat, lng) == "addr " \o NumText(lat) \o " " \o NumText(lng)

\* `${lat}, ${lng}`
RawCoords(lat, lng) == NumText(lat) \o ", " \o NumText(lng)

\* what the lookup can end with: a JSON body with display_name, a JSON body
\* without it (an error object, or an error status with a JSON body), a body that
\* is no JSON (response.json() throws), a failed request (fetch throws)
LookupOutcomes == {"address", "no display_name", "no json", "network error"}

\* the try/catch of the position callback
LocationAfterLookup(outcome, lat, lng) ==
    CASE outcome = "address"         -> Address(lat, lng)
      [] outcome = "no display_name" -> Undefined
      [] outcome = "no json"         -> RawCoords(lat, lng)
      [] outcome = "network error"   -> RawCoords(lat, lng)

InitLocate ==
    /\ session = "cit"
    /\ remote = <<>> /\ rver = 0 /\ events = <<>> /\ nOps = 0
    /\ route = "/dashboard" /\ mounted = TRUE /\ channel = FALSE
    /\ alerts = {} /\ anonQueries = {}
    /\ AdminIdle /\ SignUpIdle /\ LevelsIdle /\ DashboardIdle /\ CommunityIdle
    /\ CallbackIdle /\ ProfileIdle /\ LoginIdle
    /\ file = FALSE /\ isEmergency = FALSE /\ uploading = FALSE /\ rmError = "null"
    /\ isSuccess = FALSE /\ rmPc = "form" /\ rmUser = "?" /\ imageUrl = "null"
    /\ submitted = {} /\ rmCalls = <<>>
    /\ tkIssues = <<>> /\ tkLoading = FALSE /\ tkPc = "none" /\ tkUser = "?"
    /\ tkSince = {}
    /\ location = "" /\ coords = NoCoords /\ locationLoading = FALSE
    /\ glPc = "idle" /\ geoSupported \in BOOLEAN

\* the user edits the location field
SetLocation(text) ==
    /\ rmPc = "form" /\ location # text
    /\ location' = text
    /\ UNCHANGED <<coords, locationLoading, glPc, geoSupported, nOps, rmError, notLocate>>

\* handleGetLocation up to the position request
HandleGetLocation ==
    /\ rmPc = "form" /\ nOps < MaxLocates
    /\ nOps' = nOps + 1
    /\ IF ~geoSupported
       THEN /\ rmError' = "Geolocation not supported"
            /\ UNCHANGED <<locationLoading, glPc>>
       ELSE /\ locationLoading' = TRUE
            /\ glPc' = "position"
            /\ UNCHANGED rmError
    /\ UNCHANGED <<location, coords, geoSupported, notLocate>>

\* the success callback of getCurrentPosition up to its await
PositionObtained(lat, lng) ==
    /\ glPc = "position"
    /\ coords' = [known |-> TRUE, lat |-> lat, lng |-> lng]
    /\ glPc' = "lookup"
    /\ UNCHANGED <<location, locationLoading, geoSupported, nOps, rmError, notLocate>>

\* the position request is denied, times out or fails: getCurrentPosition was
\* given no error callback
PositionFailed ==
    /\ glPc = "position"
    /\ glPc' = "failed"
    /\ UNCHANGED <<location, coords, locationLoading, geoSupported, nOps, rmError,
                   notLocate>>

\* the reverse-geocoding lookup ends: try, catch and finally of the callback
LookupSettled(outcome) ==
    /\ glPc = "lookup"
    /\ location' = LocationAfterLookup(outcome, coords.lat, coords.lng)
    /\ locationLoading' = FALSE
    /\ glPc' = "idle"
    /\ UNCHANGED <<coords, geoSupported, nOps, rmError, notLocate>>

\* the GPS button is disabled while locationLoading
NextLocate ==
    \/ \E text \in {"", "Main St"} : SetLocation(text)
    \/ ~locationLoading /\ HandleGetLocation
    \/ \E lat \in Latitudes, lng \in Longitudes : PositionObtained(lat, lng)
    \/ PositionFailed
    \/ \E outcome \in LookupOutcomes : LookupSettled(outcome)

SpecLocate == InitLocate /\ [][NextLocate]_vars

----
\* The auth callback route (part_002 1-47: app/auth/callback/route.js)

\* new URL(request.url).origin
Origin == "https://civicfix.app"

Codes == {Absent, "", "c0de"}
Nexts == {Absent, "", "/admin", "/profile"}

\* if (code): null and the empty string are falsy
Truthy(value) == value # Absent /\ value # ""

\* a default that replaces every value of next
NextOrDefaultAlways(next) == "/dashboard"

\* searchParams.get('next') ?? '/dashboard'
NextOrDefault(next) == IF next = Absent THEN "/dashboard" ELSE next

InitCallback ==
    /\ session = NoUser
    /\ remote = <<>> /\ rver = 0 /\ events = <<>> /\ nOps = 0
    /\ route = "/" /\ mounted = FALSE /\ channel = FALSE
    /\ alerts = {} /\ anonQueries = {}
    /\ AdminIdle /\ SignUpIdle /\ LevelsIdle /\ ReportIdle /\ DashboardIdle
    /\ CommunityIdle /\ LocateIdle
    /\ CallbackIdle /\ ProfileIdle /\ LoginIdle

\* GET up to the exchange: without a code it answers at once
Get(code, next) ==
    /\ cbPc \in {"idle", "done"} /\ Len(cbLog) < MaxRequests
    /\ cbLog' = IF cbPc = "done"
                THEN Append(cbLog, [req |-> cbReq, out |-> cbOut, exchanges |-> cbExchanges])
                ELSE cbLog
    /\ cbReq' = [code |-> code, next |-> next]
    /\ cbExchanges' = <<>>
    /\ IF Truthy(code)
       THEN cbPc' = "exchange" /\ cbOut' = <<>>
       ELSE /\ cbOut' = <<Origin \o "/login">>
            /\ cbPc' = "done"
    /\ UNCHANGED <<session, notCallback>>

\* exchangeCodeForSession settles
ExchangeSettled(error) ==
    /\ cbPc = "exchange"
    /\ cbExchanges' = Append(cbExchanges, IF error THEN "error" ELSE "ok")
    /\ session' = IF error THEN session ELSE "cit"
    /\ cbOut' = Append(cbOut, IF error THEN Origin \o "/login"
                                        ELSE Origin \o NextOrDefault(cbReq.next))
    /\ cbPc' = "done"
    /\ UNCHANGED <<cbReq, cbLog, notCallback>>

NextCallback ==
    \/ \E code \in Codes, next \in Nexts : Get(code, next)
    \/ \E error \in BOOLEAN : ExchangeSettled(error)

SpecCallback == InitCallback /\ [][NextCallback]_vars



----
\* ProfilePage (part_002 48-: app/profile/page.js)

FullNames == {"Ann", "Ann Lee"}
PhoneNumbers == {"", "9876543210"}
Extensions == {"png", "jpg"}

\* getPublicUrl of `${profile.id}/avatar.${fileExt}`
AvatarUrl(ext) == IF ext = "png" THEN "cit/avatar.png" ELSE "cit/avatar.jpg"

\* the rows of profiles the user may have when the page mounts
ProfileRows ==
    {[id |-> "cit", full_name |-> "Ann", username |-> "ann", mobile |-> m,
      avatar_url |-> a] : m \in PhoneNumbers, a \in {"null", AvatarUrl("png")}}

\* the page after its first render and its mount effect
InitProfile ==
    /\ session \in {"cit", NoUser}
    /\ remote = <<>> /\ rver = 0 /\ events = <<>> /\ nOps = 0
    /\ route = "/profile" /\ mounted = TRUE /\ channel = FALSE
    /\ alerts = {} /\ anonQueries = {}
    /\ AdminIdle /\ SignUpIdle /\ LevelsIdle /\ ReportIdle /\ DashboardIdle
    /\ CommunityIdle /\ LocateIdle /\ CallbackIdle /\ LoginIdle
    /\ pfRemote \in ProfileRows /\ pfProfile = NoProfile /\ pfFormData = NoProfile
    /\ pfEditing = FALSE /\ pfLoading = TRUE /\ pfUploading = FALSE /\ pfPc = "getUser"
    /\ pfUpdate = NoProfileUpdate /\ pfUpload = NoUpload /\ pfAllOk = TRUE

\* fetchProfile: getUser answers; without a user the view is sent to /login
ProfileGetUserResp ==
    /\ pfPc = "getUser"
    /\ IF session = NoUser
       THEN route' = "/login" /\ pfPc' = "done"
       ELSE pfPc' = "query" /\ UNCHANGED route
    /\ UNCHANGED <<session, nOps, mounted, channel, alerts, anonQueries, pfRemote,
                   pfProfile, pfFormData, pfEditing, pfLoading, pfUploading, pfUpdate,
                   pfUpload, pfAllOk, notProfile>>

\* fetchProfile: the profile query answers; with an error data is null and the render
\* that follows throws on profile.avatar_url
ProfileQueryResp(error) ==
    /\ pfPc = "query"
    /\ pfProfile' = IF error THEN NoProfile ELSE pfRemote
    /\ pfFormData' = IF error THEN NoProfile ELSE pfRemote
    /\ pfLoading' = FALSE
    /\ pfPc' = IF error THEN "crashed" ELSE "done"
    /\ UNCHANGED <<session, nOps, navVars, pfRemote, pfEditing, pfUploading, pfUpdate,
                   pfUpload, pfAllOk, notProfile>>

\* the page shows its card: fetchProfile has set the profile and loading is false
CardShown == pfPc = "done" /\ pfProfile # NoProfile /\ ~pfLoading

\* Edit Profile
SetEditing ==
    /\ CardShown /\ ~pfEditing
    /\ pfEditing' = TRUE
    /\ UNCHANGED <<session, nOps, navVars, pfRemote, pfProfile, pfFormData, pfLoading,
                   pfUploading, pfPc, pfUpdate, pfUpload, pfAllOk, notProfile>>

\* onChange of an input of the card: setFormData({...formData, [field]: value})
SetFormData(field, value) ==
    /\ CardShown /\ pfEditing
    /\ pfFormData[field] # value
    /\ pfFormData' = [pfFormData EXCEPT ![field] = value]
    /\ UNCHANGED <<session, nOps, navVars, pfRemote, pfProfile, pfEditing, pfLoading,
                   pfUploading, pfPc, pfUpdate, pfUpload, pfAllOk, notProfile>>

\* handleUpdate up to its await
HandleUpdate ==
    /\ CardShown /\ pfEditing
    /\ nOps < MaxEdits
    /\ nOps' = nOps + 1
    /\ pfLoading' = TRUE
    /\ pfUpdate' = [active |-> TRUE, formData |-> pfFormData]
    /\ UNCHANGED <<session, navVars, pfRemote, pfProfile, pfFormData, pfEditing,
                   pfUploading, pfPc, pfUpload, pfAllOk, notProfile>>

\* the update of full_name, username and mobile settles: the rest of handleUpdate
ProfileUpdateSettled(error) ==
    /\ pfUpdate.active
    /\ pfUpdate' = NoProfileUpdate
    /\ pfLoading' = FALSE
    /\ IF error
       THEN /\ pfAllOk' = FALSE
            /\ UNCHANGED <<pfRemote, pfProfile, pfEditing, alerts>>
       ELSE /\ pfRemote' = [pfRemote EXCEPT !.full_name = pfUpdate.formData.full_name,
                                            !.username = pfUpdate.formData.username,
                                            !.mobile = pfUpdate.formData.mobile]
            /\ pfProfile' = pfUpdate.formData
            /\ pfEditing' = FALSE
            /\ alerts' = alerts \cup {"Profile updated!"}
            /\ UNCHANGED pfAllOk
    /\ UNCHANGED <<session, nOps, route, mounted, channel, anonQueries, pfFormData,
                   pfUploading, pfPc, pfUpload, notProfile>>

\* handleAvatarUpload up to the await of the storage upload
HandleAvatarUpload(ext) ==
    /\ CardShown /\ ~pfUploading
    /\ nOps < MaxEdits
    /\ nOps' = nOps + 1
    /\ pfUploading' = TRUE
    /\ pfUpload' = [pc |-> "upload", profile |-> pfProfile, url |-> AvatarUrl(ext)]
    /\ UNCHANGED <<session, navVars, pfRemote, pfProfile, pfFormData, pfEditing,
                   pfLoading, pfPc, pfUpdate, pfAllOk, notProfile>>

\* the storage upload settles: an error is thrown to the catch and the finally
AvatarStored(uploadError) ==
    /\ pfUpload.pc = "upload"
    /\ IF uploadError
       THEN /\ alerts' = alerts \cup {"Error uploading avatar!"}
            /\ pfUploading' = FALSE
            /\ pfUpload' = NoUpload
            /\ pfAllOk' = FALSE
       ELSE /\ pfUpload' = [pfUpload EXCEPT !.pc = "update"]
            /\ UNCHANGED <<alerts, pfUploading, pfAllOk>>
    /\ UNCHANGED <<session, nOps, route, mounted, channel, anonQueries, pfRemote,
                   pfProfile, pfFormData, pfEditing, pfLoading, pfPc, pfUpdate,
                   notProfile>>

\* the update of avatar_url settles; its error is not read
AvatarUpdateSettled(error) ==
    /\ pfUpload.pc = "update"
    /\ pfRemote' = IF error THEN pfRemote
                   ELSE [pfRemote EXCEPT !.avatar_url = pfUpload.url]
    /\ pfProfile' = [pfUpload.profile EXCEPT !.avatar_url = pfUpload.url]
    /\ alerts' = alerts \cup {"Avatar updated!"}
    /\ pfUploading' = FALSE
    /\ pfUpload' = NoUpload
    /\ pfAllOk' = (pfAllOk /\ ~error)
    /\ UNCHANGED <<session, nOps, route, mounted, channel, anonQueries, pfFormData,
                   pfEditing, pfLoading, pfPc, pfUpdate, notProfile>>

NextProfile ==
    \/ ProfileGetUserResp
    \/ \E error \in BOOLEAN : ProfileQueryResp(error)
    \/ SetEditing
    \/ \E value \in FullNames : SetFormData("full_name", value)
    \/ \E value \in PhoneNumbers : SetFormData("mobile", value)
    \/ HandleUpdate
    \/ \E error \in BOOLEAN : ProfileUpdateSettled(error)
    \/ \E ext \in Extensions : HandleAvatarUpload(ext)
    \/ \E error \in BOOLEAN : AvatarStored(error)
    \/ \E error \in BOOLEAN : AvatarUpdateSettled(error)

SpecProfile == InitProfile /\ [][NextProfile]_vars

----
\* LoginPage (login/page.js 8-118)

\* a navigation that sends a user without a role to the login page
HomeOfRoleStrict(r) ==
    IF r = "admin" THEN "/admin" ELSE IF r = "citizen" THEN "/dashboard" ELSE "/login"

\* if (profile?.role === 'admin') router.push('/admin'); else router.push('/dashboard')
HomeOfRole(r) == IF r = "admin" THEN "/admin" ELSE "/dashboard"

\* the page after its first render
InitLogin ==
    /\ session = NoUser
    /\ remote = <<>> /\ rver = 0 /\ events = <<>> /\ nOps = 0
    /\ route = "/login" /\ mounted = TRUE /\ channel = FALSE
    /\ alerts = {} /\ anonQueries = {}
    /\ AdminIdle /\ SignUpIdle /\ LevelsIdle /\ ReportIdle /\ DashboardIdle
    /\ CommunityIdle /\ LocateIdle /\ CallbackIdle /\ ProfileIdle
    /\ lgView = "login" /\ lgLoading = FALSE /\ lgMessage = "null" /\ lgErrorMsg = "null"
    /\ lgPc = "form" /\ lgUser = "?" /\ lgQueries = 0 /\ lgPushes = <<>>

\* Forgot Password? and Back
SetView(v) ==
    /\ lgPc # "done" /\ v # lgView
    /\ lgView' = v
    /\ UNCHANGED <<session, nOps, navVars, lgLoading, lgMessage, lgErrorMsg, lgPc, lgUser,
                   lgQueries, lgPushes, notLogin>>

\* handleLogin up to its await; the submit button is disabled while loading
HandleLogin ==
    /\ lgView = "login" /\ ~lgLoading
    /\ nOps < MaxLogins
    /\ nOps' = nOps + 1
    /\ lgLoading' = TRUE
    /\ lgErrorMsg' = "null"
    /\ lgPc' = "signIn"
    /\ UNCHANGED <<session, navVars, lgView, lgMessage, lgUser, lgQueries, lgPushes,
                   notLogin>>

\* signInWithPassword answers: with an error (user = NoUser) handleLogin returns,
\* with a user it queries the user's role
SignInSettled(user) ==
    /\ lgPc = "signIn"
    /\ IF user = NoUser
       THEN /\ lgErrorMsg' = "Invalid login credentials"
            /\ lgLoading' = FALSE
            /\ lgPc' = "form"
            /\ UNCHANGED <<session, lgUser, lgQueries>>
       ELSE /\ session' = user
            /\ lgUser' = user
            /\ lgQueries' = lgQueries + 1
            /\ lgPc' = "profile"
            /\ UNCHANGED <<lgErrorMsg, lgLoading>>
    /\ UNCHANGED <<nOps, navVars, lgView, lgMessage, lgPushes, notLogin>>

\* the role query answers; with an error or without a row profile is null
LoginProfileResp(error) ==
    /\ lgPc = "profile"
    /\ LET target == HomeOfRole(IF error THEN "undefined" ELSE RoleOf(lgUser))
       IN  /\ route' = target
           /\ lgPushes' = Append(lgPushes, target)
    /\ lgPc' = "done"
    /\ UNCHANGED <<session, nOps, mounted, channel, alerts, anonQueries, lgView,
                   lgLoading, lgMessage, lgErrorMsg, lgUser, lgQueries, notLogin>>

\* handleResetPassword up to its await
HandleResetPassword ==
    /\ lgView = "forgot" /\ ~lgLoading
    /\ nOps < MaxLogins
    /\ nOps' = nOps + 1
    /\ lgLoading' = TRUE
    /\ lgPc' = "reset"
    /\ UNCHANGED <<session, navVars, lgView, lgMessage, lgErrorMsg, lgUser, lgQueries,
                   lgPushes, notLogin>>

\* resetPasswordForEmail answers
ResetSettled(error) ==
    /\ lgPc = "reset"
    /\ IF error
       THEN lgErrorMsg' = "For security purposes, try later" /\ UNCHANGED lgMessage
       ELSE /\ lgMessage' = "Check your email! We sent you a password reset link."
            /\ UNCHANGED lgErrorMsg
    /\ lgLoading' = FALSE
    /\ lgPc' = "form"
    /\ UNCHANGED <<session, nOps, navVars, lgView, lgUser, lgQueries, lgPushes, notLogin>>

NextLogin ==
    \/ \E v \in {"login", "forgot"} : SetView(v)
    \/ HandleLogin
    \/ \E user \in Users \cup {NoUser} : SignInSettled(user)
    \/ \E error \in BOOLEAN : LoginProfileResp(error)
    \/ HandleResetPassword
    \/ \E error \in BOOLEAN : ResetSettled(error)

SpecLogin == InitLogin /\ [][NextLogin]_vars

----
\* Claims about SignUpPage

\* the claim's pattern: exactly 10 digits, the first being 6-9
TenDigitsFrom6To9(m) ==
    /\ Len(m) = 10
    /\ m[1] \in {"6", "7", "8", "9"}
    /\ \A k \in 1..Len(m) : m[k] \in Digits

\* C3: a submission whose mobile value does not match the pattern is rejected by
\* handleSignUp: a validation error is set, loading is false again and no network
\* call was issued.
C3_InvalidMobileRejected ==
    [][(HandleSignUp /\ ~TenDigitsFrom6To9(formData.mobile))
          => (suError' # "null" /\ suLoading' = FALSE /\ suCalls' = <<>>)]_vars

\* C3 on the two versions of signup/page.js alone
C3_ValidatingVersionsReject ==
    [][(HandleSignUp /\ suVersion # "plain" /\ ~TenDigitsFrom6To9(formData.mobile))
          => (suError' # "null" /\ suLoading' = FALSE /\ suCalls' = <<>>)]_vars

----
\* Claims about submitting a report

\* C5: after a report submitted with no photo by a signed-in user was inserted, a
\* My Reports fetch that the same user starts afterwards and that returns rows
\* contains that report, with status 'Submitted' and with a null image reference.
C5_ReportShownAsSubmitted ==
    (tkPc = "done" /\ tkUser # NoUser) =>
        \A r \in tkSince : (r.by = tkUser /\ ~r.photo) =>
            \E k \in 1..Len(tkIssues) :
                /\ tkIssues[k].id = r.id
                /\ tkIssues[k].status = "Submitted"
                /\ tkIssues[k].image_url = "null"

C5_Witness ==
    /\ tkPc = "done" /\ tkUser = "cit"
    /\ \E r \in tkSince : r.by = "cit" /\ ~r.photo /\ tkIssues[1].id = r.id
    /\ Len(tkIssues) > 1
    /\ \E k \in 1..Len(remote) : remote[k].submitted_by # "cit"

----
\* Claims about DashboardPage

\* an invocation of fetchRealData that ends right after another one, with no
\* invocation ending and no mutation of the collection since that one's queries
Successive(f) ==
    /\ mounted /\ f.pc = "list"
    /\ f.succ
    /\ dbDone.ver = rver

\* C6: a refetch invoked right after another one, with no mutation in between,
\* leaves the list and the stats as the first left them.
C6_RefetchIdempotent ==
    [][\A f \in BagToSet(dbFetches), e \in BOOLEAN :
          (DbIssuesResp(f, e) /\ Successive(f) /\ dbDone.ok)
              => (myIssues' = myIssues /\ dbStats' = dbStats)]_vars

\* C6 on the dashboard when every query of the second refetch returns a result
C6_DashboardIdempotentWhenAnswered ==
    [][\A f \in BagToSet(dbFetches) :
          (DbIssuesResp(f, FALSE) /\ Successive(f) /\ dbDone.ok /\ f.ok)
              => (myIssues' = myIssues /\ dbStats' = dbStats)]_vars

----
\* Claims about the level of a point total

\* C7: the displayed level of a point total p is 1 below 100, 2 from 100 to 499 and
\* 3 from 500 on, on the rewards page and on the profile page alike.
C7_LevelThresholds ==
    LET expected == IF points < 100 THEN "1" ELSE IF points < 500 THEN "2" ELSE "3"
    IN  /\ rewardsView.points # "..." => rewardsView.level = expected
        /\ profileView # NoView => profileView.level = expected

C7_Witness ==
    /\ points = 450
    /\ rewardsView.points = "450" /\ rewardsView.level = "2"
    /\ profileView.points = "450" /\ profileView.level = "2"

----
\* Claims about AdminPage

\* C1: right after updateStatus(id, s) is invoked, while its update request is still
\* unanswered, the displayed list shows status s for issue id
C1_OptimisticStatusShown ==
    [][\A id \in IdsOf(issues), s \in Statuses :
          UpdateStatus(id, s) =>
              /\ StatusIn(issues', id) = s
              /\ \E u \in BagToSet(updates') : u.id = id /\ u.status = s /\ u.phase = "sent"]_vars

\* the list shows a status the store does not have yet
C1_Witness ==
    \E u \in BagToSet(updates) :
        /\ u.phase = "sent" /\ mounted
        /\ StatusIn(issues, u.id) = u.status
        /\ StatusIn(remote, u.id) # u.status

\* the refetch started by updateStatus, for an update Submitted -> Resolved that the
\* store applied to the collection the displayed stats were computed from, read
\* with no other mutation in between
ScenarioB(f) ==
    /\ f.kind = "update" /\ f.phase = "answered"
    /\ f.u.phase = "ok" /\ f.u.status = "Resolved"
    /\ f.u.from = "Submitted" /\ f.u.prev = "Submitted"
    /\ f.u.ver = f.u.verBefore + 1
    /\ f.ver = f.u.ver

\* C4: after the refetch of a change Submitted -> Resolved, with no other mutation in
\* between, pending is one lower and resolved one higher than before the change
C4_StatsAfterResolve ==
    ScenarioB(shown) =>
        /\ stats.pending = shown.u.statsBefore.pending - 1
        /\ stats.resolved = shown.u.statsBefore.resolved + 1

C4_Witness == ScenarioB(shown) /\ mounted /\ stats.resolved > 0

\* C6 (AdminPage): a refetch of the same collection as the one on display, the list
\* not touched since, changes neither the list nor the stats
C6_AdminRefetchIdempotent ==
    [][\A f \in BagToSet(fetches) :
          (FetchDeliver(f) /\ mounted /\ shown.phase = "answered"
               /\ f.ver = shown.ver /\ issues = shown.data)
          => (issues' = issues /\ stats' = stats)]_vars

\* C9: when the answer to its update request arrives, applied or failed, updateStatus
\* starts a refetch
C9_RefetchAfterEveryUpdate ==
    [][\A u \in BagToSet(updates) :
          (UpdateDeliver(u) \/ UpdateFail(u))
          => BagCardinality(fetches') = BagCardinality(fetches) + 1]_vars

\* C9 on part_000 alone
C9_FeedRefetchAfterEveryUpdate ==
    [][\A u \in BagToSet(updates) :
          ((UpdateDeliver(u) \/ UpdateFail(u)) /\ version = "feed")
          => \E f \in BagToSet(fetches') :
                 /\ f.kind = "update" /\ f.phase = "sent" /\ f.u.id = u.id
                 /\ CopiesIn(f, fetches') = CopiesIn(f, fetches) + 1]_vars

\* C10: a failed update is followed by a refetch (unless the display already shows
\* the store's status), and once that refetch has returned the rows of the store
\* as it is, the displayed status of the issue is the store's
C10_FailedUpdateReverted ==
    [][/\ \A u \in BagToSet(updates) :
            (UpdateFail(u) /\ mounted /\ u.id \in IdsOf(issues))
            => \/ \E g \in BagToSet(fetches') :
                      g.kind = "update" /\ g.u.id = u.id /\ g.u.phase = "error"
               \/ StatusIn(issues', u.id) = StatusIn(remote, u.id)
       /\ \A f \in BagToSet(fetches) :
            (FetchDeliver(f) /\ mounted
                 /\ f.kind = "update" /\ f.u.phase = "error" /\ f.ver = rver)
            => StatusIn(issues', f.u.id) = StatusIn(remote, f.u.id)]_vars

\* C10 on part_000 alone: the refetch that follows a failed update and returns the
\* rows of the store as it is puts the store's status on display
C10_FeedRevertedByRefetch ==
    [][\A f \in BagToSet(fetches) :
          (FetchDeliver(f) /\ mounted /\ version = "feed"
               /\ f.kind = "update" /\ f.u.phase = "error" /\ f.ver = rver)
          => StatusIn(issues', f.u.id) = StatusIn(remote, f.u.id)]_vars

\* C2: for a signed-in user who is no admin, checkAdmin ends with a redirect to
\* /dashboard, and the view never holds issue data
C2_NonAdminNeverHoldsIssues ==
    session \in {"cit", "nop"} =>
        /\ pc = "done" => route = "/dashboard"
        /\ issues = <<>>

\* C8 (AdminPage): once identity resolution has returned no user the view is sent
\* to /login and queries no collection while it stays mounted
C8_NoQueryWithoutUser ==
    who = NoUser => (route = "/login" /\ anonQueries = {})

\* C11: every change event a subscribed admin view receives, whatever its type,
\* starts one more fetchIssues and leaves the displayed list as it was; the list
\* changes only by the optimistic map of updateStatus or by taking the rows of an
\* answered fetch
C11_EventTriggersRefetch ==
    [][/\ (channel /\ channel' /\ events # <<>> /\ events' = Tail(events))
            => /\ issues' = issues
               /\ \E g \in BagToSet(fetches') :
                     /\ g.kind = "event" /\ g.phase = "sent"
                     /\ CopiesIn(g, fetches') = CopiesIn(g, fetches) + 1
       /\ issues' # issues
            => \/ \E f \in BagToSet(fetches) : f.phase = "answered" /\ issues' = f.data
               \/ \E u \in BagToSet(updates') :
                     /\ CopiesIn(u, updates') = CopiesIn(u, updates) + 1
                     /\ issues' = OptimisticMap(issues, u.id, u.status)]_vars

\* a DELETE event has been delivered and its refetch is on its way
C11_Witness ==
    /\ mounted /\ channel /\ events = <<>>
    /\ Len(remote) < NumIssues
    /\ \E g \in BagToSet(fetches) : g.kind = "event" /\ g.phase = "sent"

\* C11 (dashboard): every change event starts one more fetchRealData and leaves
\* the list of the user's issues as it was
C11_DashboardEventTriggersRefetch ==
    [][(mounted /\ channel /\ channel' /\ events # <<>> /\ events' = Tail(events))
          => /\ myIssues' = myIssues
             /\ BagCardinality(dbFetches') = BagCardinality(dbFetches) + 1
             /\ \E g \in BagToSet(dbFetches') : g.pc = "getUser"]_vars

C12_DashboardOneSubscription ==
    [][/\ mounted' <=> channel'
       /\ ~mounted => BagCardinality(dbFetches') <= BagCardinality(dbFetches)]_vars

\* C13: once the mounted admin view of part_000 shows the remote collection from a
\* refetch answered after the last mutation, every event has been delivered and no
\* update is outstanding, the arrival of the last outstanding refetch response
\* leaves the list equal to the remote collection
C13_ListStaysEqualToRemote ==
    [][\A f \in BagToSet(fetches) :
          (/\ FetchDeliver(f)
           /\ version = "feed" /\ mounted
           /\ issues = SelectAll(remote) /\ shown.ver = rver
           /\ events = <<>> /\ updates = EmptyBag /\ fetches' = EmptyBag)
          => issues' = SelectAll(remote)]_vars

\* C14: the store applies the update of this admin client whatever another client
\* wrote to the same issue in the meantime; and when the other client's value was
\* applied last and this client shows it, the arrival of this client's last
\* outstanding refetch response leaves that value on display
C14_LastWriteShownAfterRefetches ==
    [][/\ \A u \in BagToSet(updates) :
             (UpdateServe(u) /\ u.id \in IdsOf(remote))
             => StatusIn(remote', u.id) = u.status
       /\ \A f \in BagToSet(fetches) :
             (/\ FetchDeliver(f)
              /\ version = "feed" /\ mounted
              /\ f.kind = "update" /\ f.u.phase = "ok"
              /\ StatusIn(remote, f.u.id) \notin {f.u.status, "absent"}
              /\ StatusIn(issues, f.u.id) = StatusIn(remote, f.u.id)
              /\ events = <<>> /\ updates = EmptyBag /\ fetches' = EmptyBag)
             => StatusIn(issues', f.u.id) = StatusIn(remote, f.u.id)]_vars

\* C14 (store): an update that reaches the store is applied without any check of
\* the value it replaces
C14_NoVersionCheck ==
    [][\A u \in BagToSet(updates) :
          (UpdateServe(u) /\ u.id \in IdsOf(remote))
          => StatusIn(remote', u.id) = u.status]_vars

\* C15: in every state of the admin view of part_000 the displayed stats are the
\* counts over the displayed list, so pending + resolved is the length of the list
\* and emergency is at most pending
C15_StatsMatchDisplayedList ==
    version = "feed" =>
        /\ stats = StatsOf(issues)
        /\ stats.pending + stats.resolved = Len(issues)
        /\ stats.emergency <= stats.pending

----
\* Claims about CommunityPage

\* C16: within one mounted community view at most one verification insert is
\* issued for every issue, whatever the interleaving of handleVote invocations
C16_AtMostOneInsertPerIssue ==
    \A id \in DOMAIN inserts : inserts[id] <= 1

----
\* Claims about failure paths

\* C17: when the update request of updateStatus fails, the mounted admin view
\* shows a message or is redirected
C17_FailedUpdateEndsInMessage ==
    [][\A u \in BagToSet(updates) :
          (UpdateFail(u) /\ mounted) => (alerts' # alerts \/ route' # route)]_vars

\* C17 (failed verification insert): when the insert of handleVote fails, the
\* mounted community view shows a message or is redirected
C17_FailedVoteEndsInMessage ==
    [][\A v \in BagToSet(votes) :
          (VoteInsertSettled(v, TRUE) /\ mounted)
          => (alerts' # alerts \/ route' # route)]_vars

\* C17 (failed issue insert): the modal shows the insert's error message
C17_FailedInsertEndsInMessage ==
    [][InsertSettled(TRUE) => rmError' # "null"]_vars

\* C17 (failed photo upload): a submission whose photo upload failed ends with an
\* error message
C17_FailedUploadEndsInMessage ==
    [][((InsertSettled(TRUE) \/ InsertSettled(FALSE)) /\ file /\ imageUrl = "null")
          => rmError' # "null"]_vars

----
\* Claims about handleGetLocation

\* C18: the coordinates obtained are stored, and when the reverse-geocoding lookup
\* has ended the location text is defined and not empty: the returned address if
\* the lookup yielded one, the raw 'lat, lng' if it did not
C18_LocationDefinedAfterLookup ==
    [][\A outcome \in LookupOutcomes :
          LookupSettled(outcome)
          => /\ coords'.known
             /\ location' \notin {"", Undefined}
             /\ location' = IF outcome = "address"
                            THEN Address(coords.lat, coords.lng)
                            ELSE RawCoords(coords.lat, coords.lng)]_vars

----
\* Claims about the rewards progress

\* the thresholds the claim gives for a point total: (prev, next)
ClaimedThresholds(p) ==
    IF p < 100 THEN <<0, 100>> ELSE IF p < 500 THEN <<100, 500>> ELSE <<500, 1000>>

\* C19: the progress RewardsPage renders for p points is 100 * (p - prev) /
\* (next - prev) limited to 0..100: 0 at each level's lower threshold, below 100
\* for p < 1000 and exactly 100 for p >= 1000
C19_ProgressPercent ==
    rewardsView.points # "..." =>
        LET prev == ClaimedThresholds(points)[1]
            next == ClaimedThresholds(points)[2]
            pr   == rewardsView.progress
            raw  == 100 * (points - prev)
            lim  == IF raw < 0 THEN 0
                    ELSE IF raw > 100 * (next - prev) THEN 100 * (next - prev) ELSE raw
        IN  /\ pr.den > 0
            /\ pr.num * (next - prev) = lim * pr.den
            /\ points \in {0, 100, 500} => pr.num = 0
            /\ points < 1000 => pr.num < 100 * pr.den
            /\ points >= 1000 => pr.num = 100 * pr.den

\* RewardsPage has rendered more than 1000 points with a full progress bar
C19_Witness ==
    /\ rewardsView.points = "1100"
    /\ rewardsView.progress.num = 100 * rewardsView.progress.den

\* C20: the points to the next level RewardsPage renders for p points are the next
\* level's threshold minus p, and never negative
C20_PointsToNextLevel ==
    rewardsView.points # "..." =>
        /\ rewardsView.toNext = NumText(ClaimedThresholds(points)[2] - points)
        /\ \E n \in 0..MaxPoints : rewardsView.toNext = NumText(n)

\* C20 without its last part: the points to the next level are the next level's
\* threshold minus p, 50 for p = 450
C20_NextThresholdMinusPoints ==
    rewardsView.points # "..." =>
        /\ rewardsView.toNext = NumText(ClaimedThresholds(points)[2] - points)
        /\ points = 450 => rewardsView.toNext = "50"

----
\* Claims about TrackIssuesPage

\* C21: in every state the list of the track view holds only issues submitted by
\* the current user, and an issue another user creates leaves the list as it is
C21_OnlyOwnIssuesTracked ==
    [][/\ \A k \in 1..Len(tkIssues') : tkIssues'[k].submitted_by = session
       /\ (\E k \in 1..Len(remote') :
              /\ remote'[k].id \notin IdsOf(remote)
              /\ remote'[k].submitted_by # session)
          => tkIssues' = tkIssues]_vars

\* the track view lists the user's issues while the store also holds another
\* user's issue, one of them created while the view was open
C21_Witness ==
    /\ route = "/track" /\ tkPc = "done" /\ tkIssues # <<>>
    /\ session # "cit"
    /\ \E k \in 1..Len(remote) : remote[k].submitted_by = "cit" /\ remote[k].id > NumIssues

----
\* Claims about updateStatus

\* row after differs from row before in nothing, or in its status alone when it
\* is the issue id and the status is s
OnlyStatusOf(before, after, id, s) ==
    /\ Len(after) = Len(before)
    /\ \A k \in 1..Len(before) :
          /\ after[k].id = before[k].id
          /\ after[k].is_emergency = before[k].is_emergency
          /\ after[k].submitted_by = before[k].submitted_by
          /\ after[k].image_url = before[k].image_url
          /\ after[k].status = IF before[k].id = id THEN s ELSE before[k].status

\* C22: updateStatus(id, s) changes nothing in the displayed list but the status
\* of issue id, and the update the store applies for it changes nothing in the
\* collection but the status of the row with that id
C22_OnlyStatusOfTargetChanges ==
    [][/\ \A id \in IdsOf(issues), s \in Statuses :
             UpdateStatus(id, s) => OnlyStatusOf(issues, issues', id, s)
       /\ \A u \in BagToSet(updates) :
             UpdateServe(u) => OnlyStatusOf(remote, remote', u.id, u.status)]_vars

\* updateStatus has acted on the emergency issue of a list of several issues and
\* the store has applied its update
C22_Witness ==
    /\ Len(issues) > 1
    /\ \E u \in BagToSet(updates), k \in 1..Len(issues) :
          /\ u.phase = "ok" /\ u.id = issues[k].id
          /\ issues[k].is_emergency /\ issues[k].status = u.status
          /\ StatusIn(remote, u.id) = u.status

----
\* Claims about the auth callback route

\* a handled request was answered as the claim says: one redirect, to origin +
\* next (or /dashboard) exactly when it had a code and the exchange succeeded, to
\* origin + /login otherwise, and no exchange without a code
AnsweredAsClaimed(req, out, exchanges) ==
    /\ Len(out) = 1
    /\ out[1] = IF req.code # Absent /\ exchanges = <<"ok">>
                THEN Origin \o (IF req.next = Absent THEN "/dashboard" ELSE req.next)
                ELSE Origin \o "/login"
    /\ req.code = Absent => exchanges = <<>>
    /\ Len(exchanges) <= 1

\* C23: GET answers every request with exactly one redirect, to origin + next
\* (next defaulting to /dashboard) if and only if a code is present and its
\* exchange succeeds and to origin + /login otherwise, and attempts no exchange
\* when the code is absent
C23_CallbackRedirectsOnce ==
    /\ cbPc = "exchange" => (cbOut = <<>> /\ cbReq.code # Absent)
    /\ cbPc = "done" => AnsweredAsClaimed(cbReq, cbOut, cbExchanges)
    /\ \A k \in 1..Len(cbLog) :
          AnsweredAsClaimed(cbLog[k].req, cbLog[k].out, cbLog[k].exchanges)

\* a request with a code and a next parameter was exchanged and redirected to
\* next, after a request without a code was sent to /login
C23_Witness ==
    /\ cbPc = "done" /\ cbExchanges = <<"ok">>
    /\ cbReq.next = "/admin" /\ cbOut = <<Origin \o "/admin">>
    /\ \E k \in 1..Len(cbLog) :
          cbLog[k].req.code = Absent /\ cbLog[k].out = <<Origin \o "/login">>

----
\* Claim C24

\* the number of invocations of a callback
CountOf(calls, name) == Len(SelectSeq(calls, LAMBDA c : c = name))

----
\* Claim C25

\* C25: on the sign-up view a session check of the polling interval starts only while
\* the view is mounted with verificationPending true; a check that observes a session
\* navigates to /admin when the selected role is authority and to /dashboard
\* otherwise; the unmount clears the interval and no check starts after it.
C25_PollingOnlyWhilePending ==
    [][/\ (suPolled' > suPolled => verificationPending /\ mounted)
       /\ (Len(suChecks') < Len(suChecks) /\ session # NoUser
           => route' = IF role = "authority" THEN "/admin" ELSE "/dashboard")
       /\ (mounted /\ ~mounted' => ~suTimer')
       /\ (~mounted => ~suTimer /\ suPolled' = suPolled)]_vars

\* an authority whose session a check of the interval observed; every check has
\* settled and the view has unmounted
C25_Witness ==
    /\ suVersion = "polling" /\ role = "authority" /\ verificationPending
    /\ suPolled = MaxPolls /\ suChecks = <<>>
    /\ session # NoUser /\ route = "/admin" /\ ~mounted

----
\* Claim C26

\* C26: while an update of the admin view of part_000 that the store has applied is
\* the last mutation and its status is on display, the arrival of the response of a
\* refetch that a change event started and the store answered before the update
\* leaves that status on display
C26_UpdatedStatusStaysOnDisplay ==
    [][\A f \in BagToSet(fetches) : \A u \in BagToSet(updates) :
          (/\ FetchDeliver(f)
           /\ version = "feed" /\ mounted
           /\ u.phase = "ok" /\ u.ver = rver
           /\ f.kind = "event" /\ f.ver < u.ver
           /\ StatusIn(issues, u.id) = u.status)
          => StatusIn(issues', u.id) = u.status]_vars

----
\* Claim C27

\* C27: an invocation of fetchRealData of which a query returned an error leaves the
\* list and the stats of the dashboard as they were
C27_FailedRefetchKeepsView ==
    [][\A f \in BagToSet(dbFetches), e \in BOOLEAN :
          (DbIssuesResp(f, e) /\ (e \/ ~f.ok))
              => (myIssues' = myIssues /\ dbStats' = dbStats)]_vars

\* C27 (AdminPage): a fetchIssues whose query returns an error leaves the list and
\* the stats as they were
C27_AdminFailedRefetchKeepsView ==
    [][\A f \in BagToSet(fetches) :
          FetchFail(f) => (issues' = issues /\ stats' = stats)]_vars

----
\* Claim C28

\* C28: whenever no step of an invocation of handleGetLocation is outstanding, the
\* position request having succeeded, failed or been denied and the lookup having
\* ended, locationLoading is false
C28_LoadingEndsWithInvocation ==
    glPc \in {"idle", "failed"} => ~locationLoading

----
\* Claim C29

ProfileFields == {"full_name", "username", "mobile", "avatar_url"}

\* C29: on the profile view, when no operation is in flight and every handleUpdate
\* and handleAvatarUpload so far has succeeded, the displayed profile equals the
\* remote row on full_name, username, mobile and avatar_url
C29_DisplayedProfileEqualsRemote ==
    (CardShown /\ pfAllOk /\ ~pfUpdate.active /\ pfUpload.pc = "none")
        => \A field \in ProfileFields : pfProfile[field] = pfRemote[field]

----
\* Claim C30

\* C30: after a successful sign-in handleLogin navigates once the role query has
\* answered, to /admin exactly when the fetched profile has the role admin and to
\* /dashboard otherwise, a missing profile included; after a sign-in error it sets
\* the error message and loading false, issues no profile query and does not
\* navigate; a profile query is issued only by a successful sign-in.
C30_LoginNavigatesByRole ==
    [][/\ \A error \in BOOLEAN :
             LoginProfileResp(error)
             => /\ route' = "/admin" <=> (~error /\ RoleOf(lgUser) = "admin")
                /\ route' # "/admin" => route' = "/dashboard"
                /\ lgPushes' = Append(lgPushes, route')
       /\ SignInSettled(NoUser)
             => /\ lgErrorMsg' # "null" /\ lgLoading' = FALSE
                /\ lgQueries' = lgQueries
                /\ lgPushes' = lgPushes /\ route' = route
       /\ lgQueries' # lgQueries => lgPc = "signIn" /\ session' \in Users
       /\ lgPushes' # lgPushes => lgPc = "profile"]_vars

\* after a failed sign-in, a user without a profile row has signed in and is on the
\* dashboard
C30_Witness ==
    /\ lgPc = "done" /\ lgUser = "nop" /\ route = "/dashboard"
    /\ lgPushes = <<"/dashboard">> /\ lgQueries = 1 /\ nOps = MaxLogins

====
